---------------------------- MODULE Spec2Model ----------------------------
(***************************************************************************)
(* Hermes: the Conduit state machine (server/conduit/engine.py), the       *)
(* Signal Emitter (server/signals/emitter.py) and the Pipeline Manager's   *)
(* atomic persist (server/pipeline/manager.py).                            *)
(*                                                                         *)
(* Four specifications share the variables below:                         *)
(*   Spec         one Conduit.run() call, one action per phase handler     *)
(*   FairSpec     Spec with weak fairness of the run's steps               *)
(*   EmitterSpec  one SignalEmitter used by several asyncio tasks          *)
(*   PersistSpec  PipelineManager.persist() statement by statement         *)
(***************************************************************************)
EXTENDS Naturals, Sequences, FiniteSets, TLC

(***************************************************************************)
(* Bounds of the model.                                                    *)
(***************************************************************************)
\* RetryConfig.max_retries of the run under check (the default is 3).
MaxRetries == 2
\* TimeoutConfig.global_timeout_s of the run under check, in clock ticks.
GlobalTimeout == 8
\* The longest one iteration of the main loop takes, in clock ticks.
MaxStepTicks == 2

(***************************************************************************)
(* Phases (server/conduit/phases.py).                                      *)
(***************************************************************************)
Phase ==
    {"INIT", "NAVIGATE", "ASSESS", "OBSTRUCT", "AI_REASON", "EXECUTE_PLAN",
     "EXTRACT", "VALIDATE", "REPAIR", "PERSIST", "COMPLETE", "FAIL"}

VALID_TRANSITIONS(p) ==
    CASE p = "INIT"         -> {"NAVIGATE", "FAIL"}
      [] p = "NAVIGATE"     -> {"ASSESS", "FAIL"}
      [] p = "ASSESS"       -> {"EXTRACT", "OBSTRUCT", "FAIL"}
      [] p = "OBSTRUCT"     -> {"AI_REASON", "NAVIGATE", "FAIL"}
      [] p = "AI_REASON"    -> {"EXECUTE_PLAN", "FAIL"}
      [] p = "EXECUTE_PLAN" -> {"ASSESS", "FAIL"}
      [] p = "EXTRACT"      -> {"VALIDATE", "FAIL"}
      [] p = "VALIDATE"     -> {"PERSIST", "REPAIR", "FAIL"}
      [] p = "REPAIR"       -> {"VALIDATE", "FAIL"}
      [] p = "PERSIST"      -> {"COMPLETE", "FAIL"}
      [] p = "COMPLETE"     -> {}
      [] p = "FAIL"         -> {}

TERMINAL_PHASES == {"COMPLETE", "FAIL"}

(***************************************************************************)
(* State.                                                                  *)
(***************************************************************************)
VARIABLES
    \* ---- Conduit (engine.py, __init__)
    config,             \* HermesConfig of the run: extraction_mode,
                        \* heuristic_selectors, allow_cross_origin
    pc,                 \* position of run(): "start", "loop", "cleanup", "done"
    phase,              \* Conduit._phase
    phase_history,      \* every value _phase has had, in order
    elapsed,            \* time.monotonic() - _start_time, in ticks (saturating)
    attempts,           \* Conduit._attempts
    ai_calls,           \* Conduit._ai_calls
    prior_ai_attempts,  \* Conduit._prior_ai_attempts
    pending_plan,       \* Conduit._pending_plan (<<>> also when never set)
    ai_log,             \* per answer of the model to generate_navigation_plan:
                        \* its actions, and the plan that was returned
    current_dom,        \* Conduit._current_dom: NoDom or a page
    ai_available,       \* AIEngine.is_available
    browser_log,        \* the Browser Layer calls made so far, in order
    dispatched,         \* the Function Calls _execute_action passed to the browser
    result,             \* the dict run() returns, NoResult before
    \* ---- SignalEmitter (emitter.py, __init__)
    sequence,           \* SignalEmitter._sequence
    signals,            \* SignalEmitter._signals
    ledger,             \* content of signals.jsonl, a sequence of tokens
    subscribers,        \* SignalEmitter._subscribers
    \* ---- the tasks that call emit, and what the subscribers saw
    tpc,                \* per task: "idle", or "suspended" inside a subscriber
    tsig,               \* per task: the signal its emit call is broadcasting
    tidx,               \* per task: index of the subscriber it is awaiting
    returned,           \* per task: the signals its emit calls returned
    emit_raised,        \* per task: the number of its emit calls that raised
    deliveries,         \* the subscribers' events, in the order they happened
    setattr_log,        \* the assignments to fields of emitted signals, in order
    \* ---- PipelineManager (manager.py, __init__) and its run directory
    processed_records,  \* PipelineManager._processed_records
    records_file,       \* content of records.jsonl, Absent if no such file
    tmp_file,           \* content of records.tmp, Absent if no such file
    metadata_file,      \* metadata.json: Absent or a file with total_records
    ppc,                \* position inside persist(), "idle" outside it
    pidx,               \* persist(): index of the next record to write
    persist_log,        \* what persist() did so far: "renamed", "raised"
    previous_file,      \* records.jsonl as it was when persist() was called
    fault_injected      \* a file operation of the current persist() call failed

cvars ==
    <<config, pc, phase, phase_history, elapsed, attempts, ai_calls, prior_ai_attempts,
      pending_plan, ai_log, current_dom, ai_available, browser_log, dispatched, result>>
evars == <<sequence, signals, ledger>>
bvars == <<subscribers, tpc, tsig, tidx, returned, emit_raised, deliveries, setattr_log>>
pvars ==
    <<processed_records, records_file, tmp_file, metadata_file, ppc, pidx, persist_log>>
gvars == <<previous_file, fault_injected>>
vars == <<cvars, evars, bvars, pvars, gvars>>

\* F applied to the value of v.  The argument of an operator is evaluated
\* wherever the operator's body uses it; Bind evaluates it once.
Bind(v, F(_)) == CHOOSE r \in {F(x) : x \in {v}} : TRUE

\* A file of the run directory: whether it exists, and its content.
File(content) == [exists |-> TRUE, content |-> content]
Absent == [exists |-> FALSE, content |-> <<>>]
NoDom == [none |-> TRUE]
NoResult == [none |-> TRUE]
NoError == "none"
\* Tokens of a text file besides the JSON documents: a line break, and a
\* piece of a line that a failed write left behind.
NL == [newline |-> TRUE]
PartialLine == [partial |-> TRUE]

(***************************************************************************)
(* SignalEmitter.emit, as the Conduit's single task runs it: the sequence  *)
(* number and the list append (under the lock), then the ledger append.    *)
(* The state a handler works on is a record s of the fields it may change; *)
(* s.raised names the exception in flight, NoError when there is none.     *)
(***************************************************************************)
Signal(seq, type, payload) ==
    [sequence |-> seq, signal_type |-> type, run_id |-> "run_1", payload |-> payload]

\* Signal.model_dump_json(): one JSON document, without a line break in it.
model_dump_json(sig) ==
    [json |-> <<sig.sequence, sig.signal_type, sig.run_id, sig.payload>>]

\* _persist writing the document without the line break after it.
_persist_no_newline(file, sig) == file \o <<model_dump_json(sig)>>

\* SignalEmitter._persist: open(ledger_path, "a"); f.write(line)
_persist(file, sig) == file \o <<model_dump_json(sig), NL>>

\* emit numbering the signal before it increments _sequence.
emit_stale_sequence(s0, type, payload) ==
    Bind(s0, LAMBDA s :
        LET sig == Signal(s.sequence, type, payload)
        IN  [s EXCEPT !.sequence = @ + 1,
                      !.signals = Append(@, sig),
                      !.ledger = _persist(@, sig)])

emit(s0, type, payload) ==
    Bind(s0, LAMBDA s :
        LET seq == s.sequence + 1
            sig == Signal(seq, type, payload)
        IN  [s EXCEPT !.sequence = seq,
                      !.signals = Append(@, sig),
                      !.ledger = _persist(@, sig)])

\* What a task holds before its first emit call.
NoSignal == Signal(0, "NONE", [none |-> TRUE])

\* Signal.model_validate_json on one stripped line of the ledger: the
\* signal if the line is one JSON document of a signal, else an error.
model_validate_json(line) ==
    IF Len(line) = 1 /\ DOMAIN line[1] = {"json"} /\ Len(line[1].json) = 4
    THEN [raised |-> NoError,
          signal |-> [sequence |-> line[1].json[1], signal_type |-> line[1].json[2],
                      run_id |-> line[1].json[3], payload |-> line[1].json[4]]]
    ELSE [raised |-> "ValidationError", signal |-> NoSignal]

\* "for line in f" on the tokens from position i on, line being the tokens
\* read since the last line break: the lines of the file, the last one
\* possibly without a line break.
RECURSIVE read_lines(_, _, _)
read_lines(tokens, i, line) ==
    IF i > Len(tokens)
    THEN IF line = <<>> THEN <<>> ELSE <<line>>
    ELSE IF tokens[i] = NL
    THEN <<line>> \o read_lines(tokens, i + 1, <<>>)
    ELSE read_lines(tokens, i + 1, Append(line, tokens[i]))

\* The loop of load_ledger over the lines from number i on: strip() leaves
\* a line without blanks as it is, an empty line is skipped.
RECURSIVE load_lines(_, _, _)
load_lines(lines, i, loaded) ==
    IF i > Len(lines)
    THEN [signals |-> loaded, raised |-> NoError]
    ELSE IF lines[i] = <<>>
    THEN load_lines(lines, i + 1, loaded)
    ELSE IF model_validate_json(lines[i]).raised # NoError
    THEN [signals |-> loaded, raised |-> model_validate_json(lines[i]).raised]
    ELSE load_lines(lines, i + 1, Append(loaded, model_validate_json(lines[i]).signal))

\* SignalEmitter.load_ledger: the signals read, and the error if it raised.
\* A ledger nothing was appended to does not exist; it loads as no signals.
load_ledger(file) == load_lines(read_lines(file, 1, <<>>), 1, <<>>)

\* emit_phase_transition with the phase left and the phase entered swapped.
emit_phase_transition_swapped(s, from_phase, to_phase) ==
    emit(s, "PHASE_TRANSITION", [from_phase |-> to_phase, to_phase |-> from_phase])

emit_phase_transition(s, from_phase, to_phase) ==
    emit(s, "PHASE_TRANSITION", [from_phase |-> from_phase, to_phase |-> to_phase])

emit_run_complete(s, total_records, ai_calls_count) ==
    emit(s, "RUN_COMPLETE",
         [total_records |-> total_records, ai_calls_count |-> ai_calls_count])

emit_run_failed(s, failure_reason, phase_at_failure, attempts_made) ==
    emit(s, "RUN_FAILED",
         [failure_reason |-> failure_reason,
          phase_at_failure |-> phase_at_failure,
          attempts_made |-> attempts_made])

(***************************************************************************)
(* Conduit._transition and Conduit._fail.                                  *)
(***************************************************************************)
set_phase(s, to_phase) ==
    [s EXCEPT !.phase = to_phase, !.phase_history = Append(@, to_phase)]

\* _transition without its guard.
_transition_unguarded(s0, to_phase) ==
    Bind(s0, LAMBDA s : emit_phase_transition(set_phase(s, to_phase), s.phase, to_phase))

\* _transition assigning the phase and emitting before it checks the table.
_transition_check_last(s0, to_phase) ==
    Bind(s0, LAMBDA s :
        [emit_phase_transition(set_phase(s, to_phase), s.phase, to_phase)
            EXCEPT !.raised = IF to_phase \notin VALID_TRANSITIONS(s.phase)
                              THEN "ConduitError" ELSE @])

_transition(s0, to_phase) ==
    Bind(s0, LAMBDA s :
        IF to_phase \notin VALID_TRANSITIONS(s.phase)
        THEN [s EXCEPT !.raised = "ConduitError"]
        ELSE emit_phase_transition(set_phase(s, to_phase), s.phase, to_phase))

\* _fail without the early return for terminal phases.
_fail_reentrant(s0, reason) ==
    Bind(s0, LAMBDA s : emit_run_failed(set_phase(s, "FAIL"), reason, s.phase, s.attempts))

_fail(s0, reason) ==
    Bind(s0, LAMBDA s :
        IF s.phase \in TERMINAL_PHASES
        THEN s
        ELSE emit_run_failed(set_phase(s, "FAIL"), reason, s.phase, s.attempts))

\* _check_global_timeout never reporting expiry.
_check_global_timeout_never(t) == FALSE

_check_global_timeout(t) == t > GlobalTimeout


(***************************************************************************)
(* The run's inputs: what the environment (browser, pages, model) returns. *)
(***************************************************************************)
\* A page is its cleaned HTML, abstracted to the pattern catalogues of
\* obstruction.py that occur in it.
Pages ==
    { [html |-> {}],
      [html |-> {"consent"}],
      [html |-> {"reveal"}],
      [html |-> {"hard", "consent", "reveal"}] }

NoSelector == "no_selector"

\* detect_obstruction looking for consent gates before hard blocks.
detect_obstruction_consent_first(html) ==
    IF "consent" \in html
    THEN [obstruction_type |-> "CONSENT_GATE", selector |-> "#onetrust-accept-btn-handler",
          requires_ai |-> FALSE]
    ELSE IF "hard" \in html
    THEN [obstruction_type |-> "HARD_BLOCK", selector |-> NoSelector, requires_ai |-> FALSE]
    ELSE IF "reveal" \in html
    THEN [obstruction_type |-> "CONTENT_REVEAL", selector |-> "[class*=read-more]",
          requires_ai |-> TRUE]
    ELSE [obstruction_type |-> "NONE", selector |-> NoSelector, requires_ai |-> FALSE]

\* detect_obstruction: hard blocks first, then consent gates, then content
\* reveal patterns.
detect_obstruction(html) ==
    IF "hard" \in html
    THEN [obstruction_type |-> "HARD_BLOCK", selector |-> NoSelector, requires_ai |-> FALSE]
    ELSE IF "consent" \in html
    THEN [obstruction_type |-> "CONSENT_GATE", selector |-> "#onetrust-accept-btn-handler",
          requires_ai |-> FALSE]
    ELSE IF "reveal" \in html
    THEN [obstruction_type |-> "CONTENT_REVEAL", selector |-> "[class*=read-more]",
          requires_ai |-> TRUE]
    ELSE [obstruction_type |-> "NONE", selector |-> NoSelector, requires_ai |-> FALSE]

\* A URL string, by its parts: the host and the port of its authority (both
\* "" if it has none, the port "" if it names none) and its path.
Url(host, port, path) == [host |-> host, port |-> port, path |-> path]

\* urllib.parse.urlparse(url).netloc: the authority as written, host[:port].
urlparse(url) ==
    [netloc |-> IF url.port = "" THEN url.host ELSE url.host \o ":" \o url.port,
     path |-> url.path]

TargetUrl == Url("example.com", "", "/")
SameOriginUrl == Url("example.com", "", "/page2")
OtherPortUrl == Url("example.com", "8080", "/")
CrossOriginUrl == Url("evil.test", "", "/")
RelativeUrl == Url("", "", "/page3")
EmptyUrl == Url("", "", "")

\* Function Calls a model response may hold (FunctionCall.function, .parameters).
NoParams == [k \in {} |-> ""]
ClickAccept == [function |-> "click", parameters |-> [selector |-> "#accept"]]
ClickNoSelector == [function |-> "click", parameters |-> NoParams]
HoverNoSelector == [function |-> "hover", parameters |-> NoParams]
ScrollDown == [function |-> "scroll", parameters |-> [direction |-> "down"]]
ScrollLeft == [function |-> "scroll", parameters |-> [direction |-> "left"]]
FillNoValue == [function |-> "fill_form", parameters |-> [selector |-> "#q"]]
WaitForContent == [function |-> "wait_for", parameters |-> [selector |-> "#content"]]
NavigateSame == [function |-> "navigate_url", parameters |-> [url |-> SameOriginUrl]]
NavigateCross == [function |-> "navigate_url", parameters |-> [url |-> CrossOriginUrl]]
NavigateEmpty == [function |-> "navigate_url", parameters |-> [url |-> EmptyUrl]]
NavigateRelative == [function |-> "navigate_url", parameters |-> [url |-> RelativeUrl]]
NavigateOtherPort == [function |-> "navigate_url", parameters |-> [url |-> OtherPortUrl]]
ClassifyPage == [function |-> "classify_page", parameters |-> NoParams]
ExecuteJs == [function |-> "execute_js", parameters |-> [code |-> "alert(1)"]]

\* A response of more actions than MAX_FUNCTION_CALLS_PER_INVOCATION, all
\* different.
LongResponseLen == 25
LongResponse ==
    [i \in 1..LongResponseLen |->
        [function |-> "wait_for", parameters |-> [selector |-> "#step" \o ToString(i)]]]

\* The "actions" lists of the model's responses.
AIResponses ==
    { <<>>,
      LongResponse,
      <<ClickAccept>>,
      <<ExecuteJs>>,
      <<ClickNoSelector, ScrollLeft>>,
      <<ScrollLeft, ClickAccept>>,
      <<ExecuteJs, ClickAccept>>,
      <<ClickAccept, NavigateCross>>,
      <<NavigateCross, ClickAccept>>,
      <<NavigateSame, WaitForContent>>,
      <<NavigateRelative, NavigateOtherPort>>,
      <<HoverNoSelector, ClickAccept>>,
      <<ScrollDown, ClassifyPage>>,
      <<FillNoValue, NavigateEmpty>> }

(***************************************************************************)
(* AI Engine (ai_engine/engine.py).                                        *)
(***************************************************************************)
ALLOWED_NAVIGATION_FUNCTIONS ==
    {"click", "scroll", "fill_form", "hover", "press_key", "wait_for", "navigate_url"}
ALLOWED_ASSESSMENT_FUNCTIONS ==
    {"classify_page", "classify_obstruction", "identify_content_region",
     "assess_completeness"}
ALLOWED_EXTRACTION_FUNCTIONS ==
    {"extract_structured", "repair_extraction", "deduplicate", "convert_prose_to_fields"}
ALL_ALLOWED_FUNCTIONS ==
    ALLOWED_NAVIGATION_FUNCTIONS \cup ALLOWED_ASSESSMENT_FUNCTIONS
        \cup ALLOWED_EXTRACTION_FUNCTIONS

MAX_FUNCTION_CALLS_PER_INVOCATION == 20

Has(call, key) == key \in DOMAIN call.parameters

\* validate_function_call: NoError if valid, else the error string.
validate_function_call(call, allow_cross_origin) ==
    IF call.function \notin ALL_ALLOWED_FUNCTIONS
    THEN "Unknown function: " \o call.function
    ELSE IF call.function = "click" /\ ~Has(call, "selector")
    THEN "click requires 'selector' parameter"
    ELSE IF call.function = "scroll"
            /\ ~(Has(call, "direction") /\ call.parameters.direction \in {"up", "down"})
    THEN "scroll direction must be 'up' or 'down', got '"
             \o (IF Has(call, "direction") THEN call.parameters.direction ELSE "None")
             \o "'"
    ELSE IF call.function = "fill_form" /\ ~(Has(call, "selector") /\ Has(call, "value"))
    THEN "fill_form requires 'selector' and 'value' parameters"
    ELSE IF call.function = "navigate_url"
            /\ ~(Has(call, "url") /\ call.parameters.url # EmptyUrl)
    THEN "navigate_url requires a non-empty 'url' parameter"
    ELSE NoError

\* generate_navigation_plan without its circuit breaker.
generate_navigation_plan_uncapped(response, prior_attempts) ==
    IF prior_attempts # <<>> THEN <<>> ELSE response

\* AIEngine.generate_navigation_plan, given the "actions" of the model's
\* response.  prior_attempts is the Conduit's list of strings: building the
\* prompt reads rec.phase of each entry, which raises on a string before
\* the model is asked; the except clause then returns an empty plan.
generate_navigation_plan(response, prior_attempts) ==
    IF prior_attempts # <<>>
    THEN <<>>
    ELSE IF Len(response) > MAX_FUNCTION_CALLS_PER_INVOCATION
    THEN SubSeq(response, 1, MAX_FUNCTION_CALLS_PER_INVOCATION)
    ELSE response


(***************************************************************************)
(* Pipeline Manager (pipeline/manager.py).                                 *)
(***************************************************************************)
\* PipelineManager.add_processed_record: the gate rejects a record without
\* fields.
add_processed_record(records, record) ==
    IF DOMAIN record.fields = {} THEN records ELSE Append(records, record)

\* ExtractionRecord.model_dump_json()
record_dump_json(record) == [json |-> record]

\* The except clause of persist() that leaves records.tmp where it is.
persist_except_keep_tmp(m) ==
    [m EXCEPT !.persist_log = Append(@, "raised"), !.ppc = "raised"]

\* The except clause of persist() that moves what was written so far to
\* records.jsonl.
persist_except_salvage(m) ==
    [m EXCEPT !.records_file = IF m.tmp_file.exists THEN m.tmp_file ELSE @,
              !.tmp_file = Absent,
              !.persist_log = Append(@, "raised"),
              !.ppc = "raised"]

\* The except clause of persist(): if temp_path.exists(): temp_path.unlink();
\* raise
persist_except(m) ==
    [m EXCEPT !.tmp_file = Absent,
              !.persist_log = Append(@, "raised"),
              !.ppc = "raised"]

\* One statement of PipelineManager.persist().  m holds the manager's fields
\* and files; fails says whether this statement's file operation raises.
\*   call         if not self._processed_records: return 0
\*   open         open(temp_path, "w")
\*   write        f.write(record.model_dump_json() + "\n"), once per record
\*   rename       temp_path.rename(self._output_path)
\*   except       if temp_path.exists(): temp_path.unlink(); raise
\*   metadata     self._metadata_path.write_text(...)
\*   cleanup_raw  self._cleanup_raw()
persist_step(m, fails) ==
    CASE m.ppc = "call" ->
            IF m.processed_records = <<>>
            THEN [m EXCEPT !.ppc = "returned"]
            ELSE [m EXCEPT !.ppc = "open"]
      [] m.ppc = "open" ->
            IF fails
            THEN [m EXCEPT !.ppc = "except"]
            ELSE [m EXCEPT !.tmp_file = File(<<>>), !.pidx = 1, !.ppc = "write"]
      [] m.ppc = "write" ->
            IF m.pidx > Len(m.processed_records)
            THEN \* leaving the with block closes (and flushes) the file
                 IF fails
                 THEN [m EXCEPT !.tmp_file.content = Append(@, PartialLine),
                                !.ppc = "except"]
                 ELSE [m EXCEPT !.ppc = "rename"]
            ELSE IF fails
            THEN [m EXCEPT !.tmp_file.content = Append(@, PartialLine),
                                !.ppc = "except"]
            ELSE [m EXCEPT !.tmp_file.content =
                               @ \o <<record_dump_json(m.processed_records[m.pidx]), NL>>,
                           !.pidx = @ + 1]
      [] m.ppc = "rename" ->
            IF fails
            THEN [m EXCEPT !.ppc = "except"]
            ELSE [m EXCEPT !.records_file = m.tmp_file,
                           !.tmp_file = Absent,
                           !.persist_log = Append(@, "renamed"),
                           !.ppc = "metadata"]
      [] m.ppc = "except" -> persist_except(m)
      [] m.ppc = "metadata" ->
            IF fails
            THEN [m EXCEPT !.persist_log = Append(@, "raised"), !.ppc = "raised"]
            ELSE [m EXCEPT !.metadata_file = File(<<Len(m.processed_records)>>),
                           !.ppc = "cleanup_raw"]
      [] m.ppc = "cleanup_raw" ->
            IF fails
            THEN [m EXCEPT !.persist_log = Append(@, "raised"), !.ppc = "raised"]
            ELSE [m EXCEPT !.ppc = "returned"]
      [] OTHER -> m

\* The number of statements a persist() call of n records runs at most.
PersistSteps(n) == n + 6

\* persist() run to its end, the k-th statement failing (none when k = 0).
RECURSIVE persist_from(_, _, _)
persist_from(m0, n, k) ==
    Bind(m0, LAMBDA m :
        IF m.ppc \in {"returned", "raised"}
        THEN m
        ELSE persist_from(persist_step(m, n = k), n + 1, k))

\* PipelineManager.persist as one call on a handler state s: its files and
\* log after the call, s.raised set if it raised.
persist(s, k) ==
    Bind(persist_from([s EXCEPT !.ppc = "call"], 1, k), LAMBDA m :
        [m EXCEPT !.ppc = "idle",
                  !.pidx = 0,
                  !.raised = IF m.ppc = "raised" THEN "OSError" ELSE NoError])


(***************************************************************************)
(* Conduit: the phase handlers (conduit/engine.py), each a function from   *)
(* the state s at its start and the environment's answers to the state at  *)
(* its end.                                                                *)
(***************************************************************************)
Raised(s) == s.raised # NoError

BrowserCall(op, selector, url) == [op |-> op, selector |-> selector, url |-> url]

call_browser(s, op, selector, url) ==
    [s EXCEPT !.browser_log = Append(@, BrowserCall(op, selector, url))]

retry_attempt(s, reason) ==
    emit(s, "RETRY_ATTEMPT",
         [attempt_number |-> s.attempts, max_attempts |-> MaxRetries, reason |-> reason])

\* _phase_init initializing the AI Engine whatever the extraction mode.
_phase_init_always_ai(s, mode, start_ok, ai_init) ==
    LET s1 == call_browser(s, "start", NoSelector, EmptyUrl)
        s2 == [s1 EXCEPT !.ai_available = ai_init]
        s3 == _transition(s2, "NAVIGATE")
    IN  IF ~start_ok
        THEN _fail(s1, "Initialization failed")
        ELSE IF Raised(s3)
        THEN _fail([s3 EXCEPT !.raised = NoError], "Initialization failed")
        ELSE s3

\* _phase_init.  start_ok: BrowserLayer.start() returns (else it raises);
\* ai_init: what AIEngine.initialize() returns.
_phase_init(s, mode, start_ok, ai_init) ==
    LET s1 == call_browser(s, "start", NoSelector, EmptyUrl)
        s2 == IF mode \in {"ai", "hybrid"} THEN [s1 EXCEPT !.ai_available = ai_init] ELSE s1
        s3 == _transition(s2, "NAVIGATE")
    IN  IF ~start_ok
        THEN _fail(s1, "Initialization failed")
        ELSE IF Raised(s3)
        THEN _fail([s3 EXCEPT !.raised = NoError], "Initialization failed")
        ELSE s3

\* _phase_navigate retrying whatever the attempts counter says.
_phase_navigate_no_ceiling(s, ok) ==
    LET s1 == call_browser(s, "navigate", NoSelector, TargetUrl)
    IN  IF ok
        THEN _transition(s1, "ASSESS")
        ELSE retry_attempt([s1 EXCEPT !.attempts = @ + 1], "Navigation failed")

\* _phase_navigate.  ok: Browser.navigate returned SUCCESS (else FAILURE).
_phase_navigate(s, ok) ==
    LET s1 == call_browser(s, "navigate", NoSelector, TargetUrl)
    IN  IF ok
        THEN _transition(s1, "ASSESS")
        ELSE IF s1.attempts < MaxRetries
        THEN retry_attempt([s1 EXCEPT !.attempts = @ + 1], "Navigation failed")
        ELSE _fail(s1, "Navigation failed after attempts")

obstruction_detected(s, obstruction) ==
    emit(s, "OBSTRUCTION_DETECTED", [obstruction_type |-> obstruction.obstruction_type])

\* _phase_assess.  dom: what Browser.capture_dom returns; raises: the page
\* evaluation inside capture_dom raises instead.
_phase_assess(s, dom, raises) ==
    LET s1 == call_browser(s, "capture_dom", NoSelector, EmptyUrl)
        s2 == [s1 EXCEPT !.current_dom = dom]
        obstruction == detect_obstruction(dom.html)
    IN  IF raises
        THEN [s1 EXCEPT !.raised = "BrowserError"]
        ELSE IF dom = NoDom
        THEN _fail(s1, "Failed to capture DOM snapshot")
        ELSE IF obstruction.obstruction_type = "NONE"
        THEN _transition(s2, "EXTRACT")
        ELSE IF obstruction.obstruction_type = "HARD_BLOCK"
        THEN _fail(obstruction_detected(s2, obstruction), "Hard block detected")
        ELSE _transition(obstruction_detected(s2, obstruction), "OBSTRUCT")

action_executed(s, action_type, selector, res) ==
    emit(s, "ACTION_EXECUTED",
         [action_type |-> action_type, selector |-> selector, result |-> res])

\* The escalation of _phase_obstruct spending the retries before it turns
\* to the AI Engine.
obstruct_escalate_retry_first(s) ==
    IF s.attempts < MaxRetries
    THEN _transition(
             retry_attempt([s EXCEPT !.attempts = @ + 1],
                           "Obstruction unresolvable without AI"),
             "NAVIGATE")
    ELSE IF s.ai_available
    THEN _transition(s, "AI_REASON")
    ELSE _fail(s, "Obstruction unresolvable: AI not available and retries exhausted")

\* The escalation retrying without looking at the retry ceiling.
obstruct_escalate_no_ceiling(s) ==
    IF s.ai_available
    THEN _transition(s, "AI_REASON")
    ELSE _transition(
             retry_attempt([s EXCEPT !.attempts = @ + 1],
                           "Obstruction unresolvable without AI"),
             "NAVIGATE")

\* The escalation at the end of _phase_obstruct.
obstruct_escalate(s) ==
    IF s.ai_available
    THEN _transition(s, "AI_REASON")
    ELSE IF s.attempts < MaxRetries
    THEN _transition(
             retry_attempt([s EXCEPT !.attempts = @ + 1],
                           "Obstruction unresolvable without AI"),
             "NAVIGATE")
    ELSE _fail(s, "Obstruction unresolvable: AI not available and retries exhausted")

\* _phase_obstruct.  ok: Browser.click returned SUCCESS (else FAILURE).
_phase_obstruct(s, ok) ==
    LET obstruction == detect_obstruction(s.current_dom.html)
        s1 == call_browser(s, "click", obstruction.selector, EmptyUrl)
        s2 == action_executed(s1, "click", obstruction.selector,
                              IF ok THEN "success" ELSE "failure")
    IN  IF s.current_dom = NoDom
        THEN _fail(s, "No DOM available for obstruction handling")
        ELSE IF ~obstruction.requires_ai /\ obstruction.selector # NoSelector
        THEN IF ok
             THEN _transition([s2 EXCEPT !.attempts = 0], "NAVIGATE")
             ELSE obstruct_escalate(s2)
        ELSE obstruct_escalate(s)

\* The validation loop of _phase_ai_reason dropping the rejected actions
\* without a signal.
validate_actions_silent(s, plan, i, validated, allow_cross_origin) ==
    [s |-> s,
     validated |-> SelectSeq(plan, LAMBDA a :
                       validate_function_call(a, allow_cross_origin) = NoError)]

\* The validation loop of _phase_ai_reason keeping every action of the plan.
validate_actions_accept_all(s, plan, i, validated, allow_cross_origin) ==
    [s |-> s, validated |-> plan]

\* The validation loop of _phase_ai_reason over plan[i..]: one AI_REJECTED
\* per rejected action; the accepted ones are collected in v.validated,
\* which the caller stores in _pending_plan.
RECURSIVE validate_actions(_, _, _, _, _)
validate_actions(s0, plan, i, validated, allow_cross_origin) ==
    Bind(s0, LAMBDA s :
        IF i > Len(plan)
        THEN [s |-> s, validated |-> validated]
        ELSE LET error == validate_function_call(plan[i], allow_cross_origin)
             IN  IF error # NoError
                 THEN validate_actions(
                          emit(s, "AI_REJECTED",
                               [reason |-> error, rejected_action |-> plan[i].function,
                                phase_context |-> "AI_REASON"]),
                          plan, i + 1, validated, allow_cross_origin)
                 ELSE validate_actions(s, plan, i + 1, Append(validated, plan[i]),
                                       allow_cross_origin))

\* _phase_ai_reason.  response: the actions of the model's response.
_phase_ai_reason(s, response, allow_cross_origin) ==
    LET obstruction == detect_obstruction(s.current_dom.html)
        s1 == emit(s, "AI_INVOKED",
                   [request_type |-> "navigation_plan",
                    phase_context |-> obstruction.obstruction_type])
        plan == generate_navigation_plan(response, s.prior_ai_attempts)
        s2 == emit([s1 EXCEPT !.ai_calls = @ + 1,
                              !.ai_log = IF s.prior_ai_attempts = <<>>
                                         THEN Append(@, [response |-> response,
                                                         plan |-> plan])
                                         ELSE @],
                   "AI_RESPONDED",
                   [response_type |-> "navigation_plan",
                    function_calls_count |-> Len(plan)])
        s3 == [s2 EXCEPT !.prior_ai_attempts = Append(@, "AI returned empty plan")]
        v == validate_actions(s2, plan, 1, <<>>, allow_cross_origin)
    IN  IF s.current_dom = NoDom
        THEN _fail(s, "No DOM available for AI reasoning")
        ELSE IF plan = <<>>
        THEN IF s3.attempts < MaxRetries
             THEN _transition([s3 EXCEPT !.attempts = @ + 1], "NAVIGATE")
             ELSE _fail(s3, "AI returned empty navigation plan after retries")
        ELSE IF v.validated = <<>>
        THEN _fail([v.s EXCEPT !.prior_ai_attempts =
                                   Append(@, "All AI actions were rejected by validation")],
                   "All AI-generated actions rejected by allowlist validation")
        ELSE _transition([v.s EXCEPT !.pending_plan = v.validated], "EXECUTE_PLAN")


\* _execute_action: <<state, result>>.  ok: the browser operation, if one is
\* called, returns SUCCESS; otherwise it returns FAILURE (wait_for: TIMEOUT).
\* A missing required parameter is a KeyError, which the except clause turns
\* into "failure" before any browser call.
dispatch(s, action, op, selector, url, ok) ==
    [s |-> [call_browser(s, op, selector, url) EXCEPT !.dispatched = Append(@, action)],
     result |-> IF ok THEN "success" ELSE IF op = "wait_for" THEN "timeout" ELSE "failure"]

\* _execute_action without its origin check.
cross_origin_blocked_never(url, target_url, allow_cross_origin) == FALSE

\* The origin check of _execute_action for navigate_url: whether the action
\* returns "failure" before the browser is called.
cross_origin_blocked(url, target_url, allow_cross_origin) ==
    /\ ~allow_cross_origin
    /\ urlparse(url).netloc # ""
    /\ urlparse(url).netloc # urlparse(target_url).netloc

_execute_action(s, action, target_url, allow_cross_origin, ok) ==
    LET f == action.function
        params == action.parameters
        failure == [s |-> s, result |-> "failure"]
    IN  IF f \in {"click", "hover", "wait_for"}
        THEN IF Has(action, "selector")
             THEN dispatch(s, action, f, params.selector, EmptyUrl, ok)
             ELSE failure
        ELSE IF f = "scroll"
        THEN dispatch(s, action, f, NoSelector, EmptyUrl, ok)
        ELSE IF f = "fill_form"
        THEN IF Has(action, "selector") /\ Has(action, "value")
             THEN dispatch(s, action, f, params.selector, EmptyUrl, ok)
             ELSE failure
        ELSE IF f = "press_key"
        THEN IF Has(action, "key")
             THEN dispatch(s, action, f, NoSelector, EmptyUrl, ok)
             ELSE failure
        ELSE IF f = "navigate_url"
        THEN IF ~Has(action, "url")
             THEN failure
             ELSE IF cross_origin_blocked(params.url, target_url, allow_cross_origin)
             THEN failure
             ELSE dispatch(s, action, "navigate", NoSelector, params.url, ok)
        ELSE failure

\* The for loop of _phase_execute_plan from action i on.  fail_at: the index
\* of the action whose browser operation does not succeed (0: all succeed).
RECURSIVE execute_actions(_, _, _, _, _)
execute_actions(s0, i, target_url, allow_cross_origin, fail_at) ==
    Bind(s0, LAMBDA s :
        IF i > Len(s.pending_plan)
        THEN s
        ELSE LET action == s.pending_plan[i]
                 r == _execute_action(s, action, target_url, allow_cross_origin, i # fail_at)
                 s1 == action_executed(r.s, action.function,
                                       IF Has(action, "selector")
                                       THEN action.parameters.selector ELSE "",
                                       r.result)
             IN  IF r.result # "success"
                 THEN [s1 EXCEPT !.prior_ai_attempts = Append(@, "Action failed")]
                 ELSE execute_actions(s1, i + 1, target_url, allow_cross_origin, fail_at))

\* _phase_execute_plan leaving the attempts counter as it is.
_phase_execute_plan_keep_attempts(s, target_url, allow_cross_origin, fail_at) ==
    IF s.pending_plan = <<>>
    THEN _transition(s, "ASSESS")
    ELSE LET s1 == execute_actions(s, 1, target_url, allow_cross_origin, fail_at)
         IN  _transition([s1 EXCEPT !.pending_plan = <<>>], "ASSESS")

_phase_execute_plan(s, target_url, allow_cross_origin, fail_at) ==
    IF s.pending_plan = <<>>
    THEN _transition(s, "ASSESS")
    ELSE LET s1 == execute_actions(s, 1, target_url, allow_cross_origin, fail_at)
         IN  _transition([s1 EXCEPT !.pending_plan = <<>>, !.attempts = 0], "ASSESS")

(***************************************************************************)
(* Extraction.  A FieldValue is modelled by its confidence, in percent; an *)
(* ExtractionRecord by its fields, extraction_mode and is_partial.         *)
(***************************************************************************)
HEURISTIC_FOUND_CONFIDENCE == 100
HEURISTIC_MISSING_CONFIDENCE == 0
AI_EXTRACT_DEFAULT_CONFIDENCE == 70
AI_REPAIR_DEFAULT_CONFIDENCE == 60
MIN_CONFIDENCE_THRESHOLD == 50
\* Confidences a model answer may carry in a {value, confidence} field.
LOW_CONFIDENCE == 20
HIGH_CONFIDENCE == 90

NoFields == [k \in {} |-> 0]
Selectors == {"title", "content"}

\* heuristic_extract: no record without selectors, else one record with a
\* field per selector.  found: the selectors that matched an element with text.
heuristic_extract(selectors, found) ==
    IF selectors = {}
    THEN <<>>
    ELSE << [fields |-> [f \in selectors |->
                            IF f \in found THEN HEURISTIC_FOUND_CONFIDENCE
                            ELSE HEURISTIC_MISSING_CONFIDENCE],
             extraction_mode |-> "heuristic",
             is_partial |-> found # selectors] >>

RECURSIVE add_all(_, _, _)
add_all(records, new, i) ==
    IF i > Len(new) THEN records
    ELSE add_all(add_processed_record(records, new[i]), new, i + 1)

\* _extract_heuristic (BrowserLayer.page is set once start() has returned).
_extract_heuristic(s, selectors, found) ==
    [s EXCEPT !.processed_records = add_all(@, heuristic_extract(selectors, found), 1)]

\* Raw records of a model answer: each field is a scalar, or a {value,
\* confidence} map with a low, a high or an out-of-range confidence.
RawScalar == [title |-> "scalar", content |-> "scalar"]
RawLow == [title |-> "low", content |-> "low"]
RawMixed == [title |-> "high", content |-> "low"]
RawBad == [title |-> "bad"]
RawEmpty == NoFields
AIExtractions == {<<>>, <<RawScalar>>, <<RawLow>>, <<RawMixed>>, <<RawEmpty>>, <<RawBad>>}

IsBad(raw) == \E k \in DOMAIN raw : raw[k] = "bad"

\* The conversion loop of _extract_ai and _phase_repair for one raw record;
\* FieldValue(**value) raises a ValidationError on an out-of-range confidence.
convert_record(raw, default_confidence) ==
    [fields |-> [k \in DOMAIN raw |->
                    CASE raw[k] = "scalar" -> default_confidence
                      [] raw[k] = "low" -> LOW_CONFIDENCE
                      [] OTHER -> HIGH_CONFIDENCE],
     extraction_mode |-> "ai",
     is_partial |-> FALSE]

RECURSIVE add_converted(_, _, _, _)
add_converted(s0, raws, i, default_confidence) ==
    Bind(s0, LAMBDA s :
        IF i > Len(raws)
        THEN s
        ELSE IF IsBad(raws[i])
        THEN [s EXCEPT !.raised = "ValidationError"]
        ELSE add_converted(
                 [s EXCEPT !.processed_records =
                     add_processed_record(@, convert_record(raws[i], default_confidence))],
                 raws, i + 1, default_confidence))

\* _extract_ai.  raws: the records of AIEngine.extract_structured's result.
_extract_ai(s, raws) ==
    LET s1 == emit(s, "AI_INVOKED",
                   [request_type |-> "extraction", phase_context |-> "EXTRACT"])
        s2 == emit([s1 EXCEPT !.ai_calls = @ + 1], "AI_RESPONDED",
                   [response_type |-> "extraction", function_calls_count |-> 0])
    IN  IF s.current_dom = NoDom
        THEN s
        ELSE add_converted(s2, raws, 1, AI_EXTRACT_DEFAULT_CONFIDENCE)

\* _extract_hybrid whose AI pass starts from the records as they were
\* before the heuristic pass.
_extract_hybrid_ai_replaces(s, selectors, found, raws) ==
    LET s1 == IF selectors # {} THEN _extract_heuristic(s, selectors, found) ELSE s
        records == s1.processed_records
    IN  IF records # <<>>
           /\ (\E i \in 1..Len(records) : records[i].is_partial)
           /\ s1.ai_available
        THEN _extract_ai(s, raws)
        ELSE s1

_extract_hybrid(s, selectors, found, raws) ==
    LET s1 == IF selectors # {} THEN _extract_heuristic(s, selectors, found) ELSE s
        records == s1.processed_records
    IN  IF records # <<>>
           /\ (\E i \in 1..Len(records) : records[i].is_partial)
           /\ s1.ai_available
        THEN _extract_ai(s1, raws)
        ELSE s1

\* _phase_extract (the cached DOM is present: EXTRACT is entered from ASSESS).
_phase_extract(s, mode, selectors, found, raws) ==
    LET s1 == IF mode = "heuristic" /\ selectors # {}
              THEN _extract_heuristic(s, selectors, found)
              ELSE IF mode = "ai" /\ s.ai_available
              THEN _extract_ai(s, raws)
              ELSE IF mode = "hybrid"
              THEN _extract_hybrid(s, selectors, found, raws)
              ELSE IF selectors # {}
              THEN _extract_heuristic(s, selectors, found)
              ELSE IF s.ai_available
              THEN _extract_ai(s, raws)
              ELSE _fail(s, "No extraction configuration: no selectors and AI unavailable")
    IN  IF Raised(s1) \/ s1.phase = "FAIL"
        THEN s1
        ELSE _transition(s1, "VALIDATE")


\* The fields of all records below the confidence threshold, and all fields.
RECURSIVE flagged_fields(_, _)
flagged_fields(records, i) ==
    IF i > Len(records) THEN 0
    ELSE Cardinality({k \in DOMAIN records[i].fields :
                         records[i].fields[k] < MIN_CONFIDENCE_THRESHOLD})
         + flagged_fields(records, i + 1)

RECURSIVE total_fields(_, _)
total_fields(records, i) ==
    IF i > Len(records) THEN 0
    ELSE Cardinality(DOMAIN records[i].fields) + total_fields(records, i + 1)

\* _phase_validate going on to PERSIST without EXTRACTION_COMPLETE.
_phase_validate_silent(s) ==
    LET records == s.processed_records
        flagged == flagged_fields(records, 1)
        total == total_fields(records, 1)
        s1 == [s EXCEPT !.attempts = @ + 1]
    IN  IF records = <<>>
        THEN IF s.attempts < MaxRetries
             THEN LET s2 == retry_attempt(s1, "No records extracted")
                  IN  IF s2.ai_available
                      THEN _transition(s2, "REPAIR")
                      ELSE _fail(s2, "No records extracted and no AI available for repair")
             ELSE _fail(s, "No records extracted after maximum attempts")
        ELSE IF flagged > 0 /\ 2 * flagged > total /\ s.ai_available
                /\ s.attempts < MaxRetries
        THEN _transition(s1, "REPAIR")
        ELSE _transition(s, "PERSIST")

\* _phase_validate going to REPAIR as soon as one field is flagged.
_phase_validate_any_flagged(s) ==
    LET records == s.processed_records
        flagged == flagged_fields(records, 1)
        s1 == [s EXCEPT !.attempts = @ + 1]
    IN  IF records = <<>>
        THEN IF s.attempts < MaxRetries
             THEN LET s2 == retry_attempt(s1, "No records extracted")
                  IN  IF s2.ai_available
                      THEN _transition(s2, "REPAIR")
                      ELSE _fail(s2, "No records extracted and no AI available for repair")
             ELSE _fail(s, "No records extracted after maximum attempts")
        ELSE IF flagged > 0 /\ s.ai_available /\ s.attempts < MaxRetries
        THEN _transition(s1, "REPAIR")
        ELSE _transition(
                 emit(s, "EXTRACTION_COMPLETE",
                      [record_count |-> Len(records), flagged_fields |-> flagged]),
                 "PERSIST")

\* _phase_validate.  flagged / max(total, 1) > 0.5 is 2 * flagged > total
\* whenever flagged > 0.
_phase_validate(s) ==
    LET records == s.processed_records
        flagged == flagged_fields(records, 1)
        total == total_fields(records, 1)
        s1 == [s EXCEPT !.attempts = @ + 1]
    IN  IF records = <<>>
        THEN IF s.attempts < MaxRetries
             THEN LET s2 == retry_attempt(s1, "No records extracted")
                  IN  IF s2.ai_available
                      THEN _transition(s2, "REPAIR")
                      ELSE _fail(s2, "No records extracted and no AI available for repair")
             ELSE _fail(s, "No records extracted after maximum attempts")
        ELSE IF flagged > 0 /\ 2 * flagged > total /\ s.ai_available
                /\ s.attempts < MaxRetries
        THEN _transition(s1, "REPAIR")
        ELSE _transition(
                 emit(s, "EXTRACTION_COMPLETE",
                      [record_count |-> Len(records), flagged_fields |-> flagged]),
                 "PERSIST")

\* _phase_repair.  raws: the records of AIEngine.repair_extraction's result.
_phase_repair(s, raws) ==
    LET s1 == emit(s, "AI_INVOKED", [request_type |-> "repair"])
        s2 == emit([s1 EXCEPT !.ai_calls = @ + 1], "AI_RESPONDED",
                   [response_type |-> "repair"])
        s3 == add_converted(s2, raws, 1, AI_REPAIR_DEFAULT_CONFIDENCE)
    IN  IF ~s.ai_available \/ s.current_dom = NoDom
        THEN _fail(s, "Cannot repair: AI unavailable or no DOM")
        ELSE IF Raised(s3)
        THEN s3
        ELSE _transition(s3, "VALIDATE")

\* _phase_persist announcing RUN_COMPLETE before persist() has returned.
_phase_persist_early_complete(s, k) ==
    LET s1 == persist(emit_run_complete(s, Len(s.processed_records), s.ai_calls), k)
        s2 == _transition(s1, "COMPLETE")
    IN  IF Raised(s1)
        THEN _fail([s1 EXCEPT !.raised = NoError], "Persist failed")
        ELSE IF Raised(s2)
        THEN _fail([s2 EXCEPT !.raised = NoError], "Persist failed")
        ELSE s2

\* _phase_persist reporting the total_records the RunMetadata was built
\* with (0) instead of the count persist() returns.
_phase_persist_metadata_count(s, k) ==
    LET s1 == persist(s, k)
        s2 == _transition(emit_run_complete(s1, 0, s1.ai_calls), "COMPLETE")
    IN  IF Raised(s1)
        THEN _fail([s1 EXCEPT !.raised = NoError], "Persist failed")
        ELSE IF Raised(s2)
        THEN _fail([s2 EXCEPT !.raised = NoError], "Persist failed")
        ELSE s2

\* _phase_persist.  k: the statement of persist() that fails (0: none).
_phase_persist(s, k) ==
    LET s1 == persist(s, k)
        count == Len(s1.processed_records)
        s2 == _transition(emit_run_complete(s1, count, s1.ai_calls), "COMPLETE")
    IN  IF Raised(s1)
        THEN _fail([s1 EXCEPT !.raised = NoError], "Persist failed")
        ELSE IF Raised(s2)
        THEN _fail([s2 EXCEPT !.raised = NoError], "Persist failed")
        ELSE s2

\* _cleanup with an except clause that lets the exception through.
cleanup_except_reraise(s) == s

\* The except clause of _cleanup (except Exception: pass).
cleanup_except(s) == [s EXCEPT !.raised = NoError]

\* _cleanup.  stop_raises: Browser.stop() raises an Exception.
_cleanup(s, stop_raises) ==
    LET s1 == call_browser(s, "stop", NoSelector, EmptyUrl)
    IN  cleanup_except(IF stop_raises THEN [s1 EXCEPT !.raised = "BrowserError"] ELSE s1)

\* run() with an except clause that only swallows the exception.
run_except_swallow(s) == [s EXCEPT !.raised = NoError]

\* The except clause of run(): an exception that left a handler fails the
\* run unless the phase is terminal already.
run_except(s) ==
    IF Raised(s)
    THEN _fail([s EXCEPT !.raised = NoError], "Unhandled exception")
    ELSE s

\* run() left by an exception instead of its return statement.
RunRaised(exc) == [raised |-> exc]

\* The dict run() returns.
run_result(s) ==
    [status |-> IF s.phase = "COMPLETE" THEN "complete" ELSE "failed",
     phase |-> s.phase,
     records_count |-> Len(s.processed_records),
     ai_calls |-> s.ai_calls,
     signals_count |-> Len(s.signals)]


(***************************************************************************)
(* Conduit.run(): one action per phase handler.  Every handler call takes  *)
(* between one and MaxStepTicks ticks of the monotonic clock.              *)
(***************************************************************************)
Configs ==
    [extraction_mode : {"heuristic", "ai", "hybrid"},
     heuristic_selectors : {{}, Selectors},
     allow_cross_origin : BOOLEAN]

\* The state a handler starts from.
HandlerState ==
    [phase |-> phase, phase_history |-> phase_history, attempts |-> attempts,
     ai_calls |-> ai_calls, prior_ai_attempts |-> prior_ai_attempts,
     pending_plan |-> pending_plan, ai_log |-> ai_log, current_dom |-> current_dom,
     ai_available |-> ai_available, browser_log |-> browser_log,
     dispatched |-> dispatched,
     sequence |-> sequence, signals |-> signals, ledger |-> ledger,
     processed_records |-> processed_records, records_file |-> records_file,
     tmp_file |-> tmp_file, metadata_file |-> metadata_file,
     ppc |-> ppc, pidx |-> pidx, persist_log |-> persist_log,
     raised |-> NoError]

\* The state a handler leaves behind.
Commit(s) ==
    /\ phase' = s.phase
    /\ phase_history' = s.phase_history
    /\ attempts' = s.attempts
    /\ ai_calls' = s.ai_calls
    /\ prior_ai_attempts' = s.prior_ai_attempts
    /\ pending_plan' = s.pending_plan
    /\ ai_log' = s.ai_log
    /\ current_dom' = s.current_dom
    /\ ai_available' = s.ai_available
    /\ browser_log' = s.browser_log
    /\ dispatched' = s.dispatched
    /\ sequence' = s.sequence
    /\ signals' = s.signals
    /\ ledger' = s.ledger
    /\ processed_records' = s.processed_records
    /\ records_file' = s.records_file
    /\ tmp_file' = s.tmp_file
    /\ metadata_file' = s.metadata_file
    /\ ppc' = s.ppc
    /\ pidx' = s.pidx
    /\ persist_log' = s.persist_log
    /\ UNCHANGED <<config, bvars, gvars>>

Tick(d) ==
    elapsed' = IF elapsed + d > GlobalTimeout THEN GlobalTimeout + 1 ELSE elapsed + d

\* One iteration of the while loop that called a handler which left s0.
LoopStep(s0, d) ==
    \E left \in {s0} :
        \E s \in {run_except(left)} :
            /\ Commit(s)
            /\ Tick(d)
            /\ pc' = IF Raised(left) \/ s.phase \in TERMINAL_PHASES
                     THEN "cleanup" ELSE "loop"
            /\ UNCHANGED result

\* The guard of a loop iteration that calls the handler of phase p.
InLoop(p) ==
    /\ pc = "loop"
    /\ phase = p
    /\ ~_check_global_timeout(elapsed)

\* The state after Conduit.__init__, SignalEmitter.__init__ and
\* PipelineManager.__init__; tasks: the tasks that will call emit themselves.
ConduitInit ==
    /\ pc = "start"
    /\ phase = "INIT"
    /\ phase_history = <<"INIT">>
    /\ elapsed = 0
    /\ attempts = 0
    /\ ai_calls = 0
    /\ prior_ai_attempts = <<>>
    /\ pending_plan = <<>>
    /\ ai_log = <<>>
    /\ current_dom = NoDom
    /\ ai_available = FALSE
    /\ browser_log = <<>>
    /\ dispatched = <<>>
    /\ result = NoResult

EmitterInit(tasks) ==
    /\ sequence = 0
    /\ signals = <<>>
    /\ ledger = <<>>
    /\ subscribers = <<>>
    /\ tpc = [t \in tasks |-> "idle"]
    /\ tsig = [t \in tasks |-> NoSignal]
    /\ tidx = [t \in tasks |-> 0]
    /\ returned = [t \in tasks |-> <<>>]
    /\ emit_raised = [t \in tasks |-> 0]
    /\ deliveries = <<>>
    /\ setattr_log = <<>>

PipelineInit ==
    /\ processed_records = <<>>
    /\ records_file = Absent
    /\ tmp_file = Absent
    /\ metadata_file = Absent
    /\ ppc = "idle"
    /\ pidx = 0
    /\ persist_log = <<>>
    /\ previous_file = Absent
    /\ fault_injected = FALSE

Init ==
    /\ config \in Configs
    /\ ConduitInit
    /\ EmitterInit({})
    /\ PipelineInit

PhaseInit ==
    /\ pc = "start"
    /\ \E start_ok \in BOOLEAN, ai_init \in BOOLEAN, d \in 1..MaxStepTicks :
          LoopStep(_phase_init(HandlerState, config.extraction_mode, start_ok, ai_init), d)

TimeoutFail ==
    /\ pc = "loop"
    /\ phase \notin TERMINAL_PHASES
    /\ _check_global_timeout(elapsed)
    /\ \E s \in {_fail(HandlerState, "Global timeout exceeded")} : Commit(s)
    /\ pc' = "cleanup"
    /\ UNCHANGED <<elapsed, result>>

PhaseNavigate ==
    /\ InLoop("NAVIGATE")
    /\ \E ok \in BOOLEAN, d \in 1..MaxStepTicks :
          LoopStep(_phase_navigate(HandlerState, ok), d)

PhaseAssess ==
    /\ InLoop("ASSESS")
    /\ \E dom \in Pages, raises \in BOOLEAN, d \in 1..MaxStepTicks :
          LoopStep(_phase_assess(HandlerState, dom, raises), d)

PhaseObstruct ==
    /\ InLoop("OBSTRUCT")
    /\ \E ok \in BOOLEAN, d \in 1..MaxStepTicks :
          LoopStep(_phase_obstruct(HandlerState, ok), d)

PhaseAiReason ==
    /\ InLoop("AI_REASON")
    /\ \E response \in AIResponses, d \in 1..MaxStepTicks :
          LoopStep(_phase_ai_reason(HandlerState, response, config.allow_cross_origin), d)

PhaseExecutePlan ==
    /\ InLoop("EXECUTE_PLAN")
    /\ \E fail_at \in 0..Len(pending_plan), d \in 1..MaxStepTicks :
          LoopStep(_phase_execute_plan(HandlerState, TargetUrl,
                                       config.allow_cross_origin, fail_at), d)

PhaseExtract ==
    /\ InLoop("EXTRACT")
    /\ \E found \in SUBSET Selectors, raws \in AIExtractions, d \in 1..MaxStepTicks :
          LoopStep(_phase_extract(HandlerState, config.extraction_mode,
                                  config.heuristic_selectors, found, raws), d)

PhaseValidate ==
    /\ InLoop("VALIDATE")
    /\ \E d \in 1..MaxStepTicks : LoopStep(_phase_validate(HandlerState), d)

PhaseRepair ==
    /\ InLoop("REPAIR")
    /\ \E raws \in AIExtractions, d \in 1..MaxStepTicks :
          LoopStep(_phase_repair(HandlerState, raws), d)

PhasePersist ==
    /\ InLoop("PERSIST")
    /\ \E k \in 0..PersistSteps(Len(processed_records)), d \in 1..MaxStepTicks :
          LoopStep(_phase_persist(HandlerState, k), d)

\* The finally clause and the return statement of run().
Cleanup ==
    /\ pc = "cleanup"
    /\ \E stop_raises \in BOOLEAN :
          \E s \in {_cleanup(HandlerState, stop_raises)} :
              /\ Commit([s EXCEPT !.raised = NoError])
              /\ result' = IF Raised(s) THEN RunRaised(s.raised) ELSE run_result(s)
    /\ pc' = "done"
    /\ UNCHANGED elapsed

Next ==
    \/ PhaseInit
    \/ TimeoutFail
    \/ PhaseNavigate
    \/ PhaseAssess
    \/ PhaseObstruct
    \/ PhaseAiReason
    \/ PhaseExecutePlan
    \/ PhaseExtract
    \/ PhaseValidate
    \/ PhaseRepair
    \/ PhasePersist
    \/ Cleanup

Spec == Init /\ [][Next]_vars

(***************************************************************************)
(* Cancellation of the task that runs run() (abort_run: task.cancel()).    *)
(* CancelledError is raised at the suspension point the task waits in; it  *)
(* is not an Exception, so no except clause of the Conduit catches it and  *)
(* it leaves run() through the finally clause.                             *)
(***************************************************************************)
\* SignalEmitter.subscribe.  since: the sequence number at that moment.
subscribe(subs, callback, since) == Append(subs, [callback |-> callback, since |-> since])

\* RunService.create_run subscribes this coroutine function, which awaits
\* WebSocket.send_text, before it creates the task.
signal_broadcaster == [kind |-> "async", raises |-> FALSE]

\* The state when the task is created: as Init, with signal_broadcaster
\* subscribed or not.
CancelInit ==
    /\ config \in Configs
    /\ ConduitInit
    /\ PipelineInit
    /\ sequence = 0
    /\ signals = <<>>
    /\ ledger = <<>>
    /\ subscribers \in {<<>>, subscribe(<<>>, signal_broadcaster, 0)}
    /\ tpc = << >>
    /\ tsig = << >>
    /\ tidx = << >>
    /\ returned = << >>
    /\ emit_raised = << >>
    /\ deliveries = <<>>
    /\ setattr_log = <<>>

\* The try statement of run() is left with CancelledError in flight after
\* the handler got as far as s.
Unwind(s, d) ==
    /\ Commit(s)
    /\ Tick(d)
    /\ pc' = "cancelled"
    /\ UNCHANGED result

\* Cancelled in the browser call a handler starts with: Browser.start in
\* _phase_init, Browser.navigate in _phase_navigate, Browser.capture_dom in
\* _phase_assess.
CancelBrowserCall ==
    /\ \/ pc = "start"
       \/ InLoop("NAVIGATE")
       \/ InLoop("ASSESS")
    /\ \E d \in 1..MaxStepTicks :
          Unwind(IF phase = "INIT"
                 THEN call_browser(HandlerState, "start", NoSelector, EmptyUrl)
                 ELSE IF phase = "NAVIGATE"
                 THEN call_browser(HandlerState, "navigate", NoSelector, TargetUrl)
                 ELSE call_browser(HandlerState, "capture_dom", NoSelector, EmptyUrl), d)

\* Cancelled in the back-off sleep of _phase_navigate, after the navigation
\* failed and RETRY_ATTEMPT was emitted.
CancelBackoff ==
    /\ InLoop("NAVIGATE")
    /\ attempts < MaxRetries
    /\ \E d \in 1..MaxStepTicks : Unwind(_phase_navigate(HandlerState, FALSE), d)

\* Cancelled in AIEngine.generate_navigation_plan, after AI_INVOKED.
CancelAiCall ==
    /\ InLoop("AI_REASON")
    /\ current_dom # NoDom
    /\ \E d \in 1..MaxStepTicks :
          Unwind(emit(HandlerState, "AI_INVOKED",
                      [request_type |-> "navigation_plan",
                       phase_context |->
                           detect_obstruction(current_dom.html).obstruction_type]), d)

\* Cancelled in _phase_persist while emit awaits signal_broadcaster: in the
\* broadcast of RUN_COMPLETE, or in that of the PHASE_TRANSITION to COMPLETE.
CancelSubscriber ==
    /\ InLoop("PERSIST")
    /\ \E i \in DOMAIN subscribers : subscribers[i].callback.kind = "async"
    /\ \E in_transition \in BOOLEAN, d \in 1..MaxStepTicks :
          LET s1 == persist(HandlerState, 0)
              s2 == emit_run_complete(s1, Len(s1.processed_records), s1.ai_calls)
          IN  Unwind(IF in_transition THEN _transition(s2, "COMPLETE") ELSE s2, d)

\* The finally clause of run() with CancelledError in flight: _cleanup, then
\* the exception leaves run().
CleanupCancelled ==
    /\ pc = "cancelled"
    /\ \E stop_raises \in BOOLEAN :
          \E s \in {_cleanup(HandlerState, stop_raises)} :
              /\ Commit([s EXCEPT !.raised = NoError])
              /\ result' = RunRaised(IF Raised(s) THEN s.raised ELSE "CancelledError")
    /\ pc' = "done"
    /\ UNCHANGED elapsed

CancelNext ==
    \/ Next
    \/ CancelBrowserCall
    \/ CancelBackoff
    \/ CancelAiCall
    \/ CancelSubscriber
    \/ CleanupCancelled

CancelSpec == CancelInit /\ [][CancelNext]_vars

\* run() is one asyncio task: whenever it can take its next step it does.
FairSpec == Spec /\ WF_vars(Next)


(***************************************************************************)
(* Properties of Conduit.run().                                            *)
(***************************************************************************)
Positions(seq, P(_)) == {i \in DOMAIN seq : P(seq[i])}

IsTerminalPhase(p) == p \in TERMINAL_PHASES
IsTerminalSignal(sig) == sig.signal_type \in {"RUN_COMPLETE", "RUN_FAILED"}
IsNavigate(p) == p = "NAVIGATE"
IsRejection(sig) == sig.signal_type = "AI_REJECTED"
IsUnhandled(sig) ==
    /\ sig.signal_type = "RUN_FAILED"
    /\ sig.payload.failure_reason = "Unhandled exception"
EnteredPersist(sig) ==
    /\ sig.signal_type = "PHASE_TRANSITION"
    /\ sig.payload.to_phase = "PERSIST"

\* C1: every change of the Conduit's phase, by _transition or by _fail, goes
\* from a phase p to a phase of VALID_TRANSITIONS[p]: the phase starts at
\* INIT, never returns to INIT and never leaves COMPLETE or FAIL.
C1_ValidTransitions ==
    /\ phase_history[1] = "INIT"
    /\ phase = phase_history[Len(phase_history)]
    /\ \A i \in 1..(Len(phase_history) - 1) :
          /\ phase_history[i + 1] \in VALID_TRANSITIONS(phase_history[i])
          /\ phase_history[i + 1] # "INIT"
          /\ phase_history[i] \notin TERMINAL_PHASES

\* A run whose AI_REASON handler asked for the transition to NAVIGATE, which
\* the guard refused, and which therefore went from AI_REASON to FAIL.
C1_Witness ==
    /\ pc = "done"
    /\ Len(phase_history) >= 6
    /\ phase_history[Len(phase_history) - 1] = "AI_REASON"
    /\ phase = "FAIL"
    /\ Positions(signals, IsUnhandled) # {}

\* C2: every run() call ends, in COMPLETE or in FAIL, and has entered a
\* terminal phase exactly once, whatever the browser and the model answer,
\* as long as every call returns and the clock advances.
C2_Terminates ==
    <>[](/\ pc = "done"
         /\ phase \in TERMINAL_PHASES
         /\ Cardinality(Positions(phase_history, IsTerminalPhase)) = 1)

\* A finished run that went through NAVIGATE three times: a cycle was taken
\* twice and left.
C2_Witness ==
    /\ pc = "done"
    /\ Cardinality(Positions(phase_history, IsNavigate)) >= 3

C5_DispatchedValidated ==
    \A i \in DOMAIN dispatched :
        validate_function_call(dispatched[i], config.allow_cross_origin) = NoError

\* A run in which validation rejected a call of the plan and EXECUTE_PLAN
\* dispatched another call of the same plan.
C5_Witness ==
    /\ dispatched # <<>>
    /\ Positions(signals, IsRejection) # {}

\* C7: at the end of a run records.jsonl exists exactly if the run entered
\* PERSIST and the rename of persist() succeeded.
C7_RecordsIffRenamed ==
    pc = "done" =>
        (records_file.exists <=>
            /\ Positions(signals, EnteredPersist) # {}
            /\ \E i \in DOMAIN persist_log : persist_log[i] = "renamed")

\* A failed run that left records.jsonl behind: the rename succeeded, the
\* metadata write after it failed.
C7_Witness ==
    /\ pc = "done"
    /\ phase = "FAIL"
    /\ records_file.exists

\* The first n elements of seq, all of them if it has fewer.
IsPrefix(a, b) == Len(a) <= Len(b) /\ SubSeq(b, 1, Len(a)) = a

FirstN(seq, n) == SubSeq(seq, 1, IF Len(seq) < n THEN Len(seq) ELSE n)

Range(seq) == {seq[i] : i \in DOMAIN seq}

\* A step of run() that calls the handler of phase p.
HandlerStep(p) == pc = "loop" /\ phase = p /\ ~_check_global_timeout(elapsed)

\* The ACTION_EXECUTED signal of an action.
IsExecutionOf(sig, action) ==
    /\ sig.signal_type = "ACTION_EXECUTED"
    /\ sig.payload.action_type = action.function
    /\ sig.payload.selector =
          (IF Has(action, "selector") THEN action.parameters.selector ELSE "")

\* C12: every plan generate_navigation_plan returned is the first 20
\* actions of the model's response (all of them if there are fewer); the
\* pending plan holds at most 20 actions, taken from that plan in its
\* order; the EXECUTE_PLAN handler processes the pending plan from its
\* first action on, in order, stopping only after an action that did not
\* succeed, and leaves the pending plan empty.
C12_PlanCapped ==
    /\ [](/\ \A i \in DOMAIN ai_log :
                (/\ Len(ai_log[i].plan) <= 20
                 /\ ai_log[i].plan = FirstN(ai_log[i].response, 20))
          /\ Len(pending_plan) <= 20
          /\ (pending_plan # <<>> =>
                (/\ ai_log # <<>>
                 /\ pending_plan =
                       SelectSeq(ai_log[Len(ai_log)].plan,
                                 LAMBDA a : a \in Range(pending_plan)))))
    /\ [][HandlerStep("EXECUTE_PLAN") =>
            LET n0 == Len(signals)
                m == Len(signals') - n0 - 1
            IN  /\ pending_plan' = <<>>
                /\ m <= Len(pending_plan)
                /\ \A i \in 1..m :
                      (/\ IsExecutionOf(signals'[n0 + i], pending_plan[i])
                       /\ (i < m => signals'[n0 + i].payload.result = "success"))
                /\ (m < Len(pending_plan) =>
                      (m > 0 /\ signals'[n0 + m].payload.result # "success"))]_vars

\* The model answered with 25 actions; EXECUTE_PLAN handed 20 of them to
\* the browser and has exited.
C12_Witness ==
    /\ \E i \in DOMAIN ai_log : Len(ai_log[i].response) = LongResponseLen
    /\ Len(dispatched) = 20
    /\ "EXECUTE_PLAN" \in Range(phase_history)
    /\ phase = "ASSESS"
    /\ pending_plan = <<>>

\* The AI_REASON handler, called in this step, got an empty plan: its
\* AI_RESPONDED signal counts no function call.
EmptyPlanReturned ==
    /\ HandlerStep("AI_REASON")
    /\ Len(signals') >= Len(signals) + 2
    /\ signals'[Len(signals) + 2].signal_type = "AI_RESPONDED"
    /\ signals'[Len(signals) + 2].payload.function_calls_count = 0

\* C13: an empty plan in AI_REASON is recorded as "AI returned empty plan";
\* while attempts < max_retries it costs one retry and the run goes on in
\* NAVIGATE, and only with the retries exhausted does the run FAIL.
C13_EmptyPlanRetries ==
    [][EmptyPlanReturned =>
        /\ prior_ai_attempts' = Append(prior_ai_attempts, "AI returned empty plan")
        /\ IF attempts < MaxRetries
           THEN attempts' = attempts + 1 /\ phase' = "NAVIGATE"
           ELSE phase' = "FAIL"]_vars

\* The AI_REASON handler, called in this step, got a plan of which
\* validation rejects every action.
AllRejected(plan) ==
    /\ plan # <<>>
    /\ \A i \in DOMAIN plan :
          validate_function_call(plan[i], config.allow_cross_origin) # NoError

IsRejectionOf(sig, action) ==
    /\ sig.signal_type = "AI_REJECTED"
    /\ sig.payload.rejected_action = action.function
    /\ sig.payload.reason = validate_function_call(action, config.allow_cross_origin)
    /\ action.function \notin ALL_ALLOWED_FUNCTIONS
          => sig.payload.reason = "Unknown function: " \o action.function

\* C14: when validation rejects every action of a non-empty plan, the
\* handler emits AI_INVOKED, AI_RESPONDED, one AI_REJECTED per action with
\* its reason, and RUN_FAILED with the allowlist reason; no pending plan
\* is stored and the phase goes from AI_REASON to FAIL, not EXECUTE_PLAN.
C14_AllRejectedFails ==
    [][(/\ HandlerStep("AI_REASON")
        /\ Len(ai_log') = Len(ai_log) + 1
        /\ AllRejected(ai_log'[Len(ai_log')].plan)) =>
        LET plan == ai_log'[Len(ai_log')].plan
            n0 == Len(signals)
        IN  /\ Len(signals') = n0 + 2 + Len(plan) + 1
            /\ \A i \in DOMAIN plan : IsRejectionOf(signals'[n0 + 2 + i], plan[i])
            /\ signals'[Len(signals')].signal_type = "RUN_FAILED"
            /\ signals'[Len(signals')].payload.failure_reason
                  = "All AI-generated actions rejected by allowlist validation"
            /\ pending_plan' = <<>>
            /\ phase_history' = Append(phase_history, "FAIL")
            /\ phase' = "FAIL"]_vars

\* The model answered with the single action execute_js: one AI_REJECTED
\* naming it, then the run failed in AI_REASON.
C14_Witness ==
    /\ \E i \in DOMAIN ai_log : ai_log[i].plan = <<ExecuteJs>>
    /\ \E i \in DOMAIN signals :
          /\ signals[i].signal_type = "AI_REJECTED"
          /\ signals[i].payload.reason = "Unknown function: execute_js"
    /\ phase = "FAIL"
    /\ signals[Len(signals)].signal_type = "RUN_FAILED"
    /\ signals[Len(signals)].payload.phase_at_failure = "AI_REASON"

\* A call without a parameter its function needs.
Malformed(call) ==
    \/ call.function \in {"click", "hover"} /\ ~Has(call, "selector")
    \/ /\ call.function = "scroll"
       /\ ~(Has(call, "direction") /\ call.parameters.direction \in {"up", "down"})
    \/ call.function = "fill_form" /\ ~(Has(call, "selector") /\ Has(call, "value"))

\* C15: a click or hover without selector, a scroll whose direction is not
\* up or down, and a fill_form without selector or value are rejected by
\* validate_function_call and never are in the pending plan.
C15_MalformedRejected ==
    /\ \A i \in DOMAIN ai_log : \A j \in DOMAIN ai_log[i].plan :
          Malformed(ai_log[i].plan[j]) =>
              validate_function_call(ai_log[i].plan[j], config.allow_cross_origin) # NoError
    /\ \A i \in DOMAIN pending_plan : ~Malformed(pending_plan[i])

\* A navigate_url call validation has to reject when cross-origin
\* navigation is not allowed: no URL, or the host of another origin.
ForeignOrEmpty(call) ==
    /\ call.function = "navigate_url"
    /\ \/ ~Has(call, "url")
       \/ call.parameters.url = EmptyUrl
       \/ call.parameters.url.host \notin {"", TargetUrl.host}

\* C16: with allow_cross_origin false, validation rejects a navigate_url
\* whose host is not the target's and a navigate_url with an empty url, so
\* that neither is in the pending plan.
C16_CrossOriginRejected ==
    ~config.allow_cross_origin =>
        /\ \A i \in DOMAIN ai_log : \A j \in DOMAIN ai_log[i].plan :
              ForeignOrEmpty(ai_log[i].plan[j]) =>
                  validate_function_call(ai_log[i].plan[j], FALSE) # NoError
        /\ \A i \in DOMAIN pending_plan : ~ForeignOrEmpty(pending_plan[i])

\* A navigate_url action to the host of another origin.
IsForeignNavigate(action) ==
    /\ action.function = "navigate_url"
    /\ Has(action, "url")
    /\ action.parameters.url.host \notin {"", TargetUrl.host}

C18_InvalidTransitionNoEffect ==
    /\ [](\A q \in Phase \ VALID_TRANSITIONS(phase) :
            LET r == _transition(HandlerState, q)
            IN  /\ r.raised = "ConduitError"
                /\ r.phase = phase
                /\ r.phase_history = phase_history
                /\ r.signals = signals
                /\ r.sequence = sequence
                /\ r.ledger = ledger)
    /\ [][(EmptyPlanReturned /\ attempts < MaxRetries) =>
            (/\ Len(signals') = Len(signals) + 3
             /\ \A i \in (Len(signals) + 1)..Len(signals') :
                   signals'[i].signal_type # "PHASE_TRANSITION"
             /\ sequence' = sequence + 3
             /\ Len(ledger') = Len(ledger) + 2 * 3
             /\ phase_history' = Append(phase_history, "FAIL"))]_vars

\* The run made the invalid call: the last three signals are AI_INVOKED,
\* AI_RESPONDED with no function call and RUN_FAILED raised in AI_REASON
\* before the retries were used up.
C18_Witness ==
    /\ Len(signals) >= 3
    /\ signals[Len(signals) - 2].signal_type = "AI_INVOKED"
    /\ signals[Len(signals) - 1].signal_type = "AI_RESPONDED"
    /\ signals[Len(signals) - 1].payload.function_calls_count = 0
    /\ IsUnhandled(signals[Len(signals)])
    /\ signals[Len(signals)].payload.phase_at_failure = "AI_REASON"
    /\ attempts <= MaxRetries
    /\ phase = "FAIL"

IsPhaseTransition(sig) == sig.signal_type = "PHASE_TRANSITION"

\* C19: every change of the phase, the change to FAIL included, is made by
\* _transition and produces exactly one PHASE_TRANSITION carrying the phase
\* left and the phase entered: the PHASE_TRANSITION signals, in order, are
\* the consecutive pairs of the phase history.
C19_EveryChangeSignalled ==
    LET pt == SelectSeq(signals, IsPhaseTransition)
    IN  /\ Len(pt) = Len(phase_history) - 1
        /\ \A i \in DOMAIN pt :
              (/\ pt[i].payload.from_phase = phase_history[i]
               /\ pt[i].payload.to_phase = phase_history[i + 1])

SignalTypes(seq) == [i \in DOMAIN seq |-> seq[i].signal_type]
IsRetry(sig) == sig.signal_type = "RETRY_ATTEMPT"
IsObstruction(sig) == sig.signal_type = "OBSTRUCTION_DETECTED"
IsExtractionComplete(sig) == sig.signal_type = "EXTRACTION_COMPLETE"
IsRunComplete(sig) == sig.signal_type = "RUN_COMPLETE"

\* run() has returned from a run in heuristic mode with selectors in which
\* nothing was retried, no obstruction was detected, and which completed.
CleanHeuristicRun ==
    /\ pc = "done"
    /\ config.extraction_mode = "heuristic"
    /\ config.heuristic_selectors # {}
    /\ phase = "COMPLETE"
    /\ Positions(signals, IsRetry) = {}
    /\ Positions(signals, IsObstruction) = {}

CleanRunPhases ==
    <<"INIT", "NAVIGATE", "ASSESS", "EXTRACT", "VALIDATE", "PERSIST", "COMPLETE">>

\* C20 as stated: the clean heuristic run visits INIT, NAVIGATE, ASSESS,
\* EXTRACT, VALIDATE, PERSIST, COMPLETE and emits exactly ten signals: the
\* phase transitions, one EXTRACTION_COMPLETE and one RUN_COMPLETE.
C20_CleanRunTenSignals ==
    CleanHeuristicRun =>
        (/\ phase_history = CleanRunPhases
         /\ Len(signals) = 10
         /\ Cardinality(Positions(signals, IsExtractionComplete)) = 1
         /\ Cardinality(Positions(signals, IsRunComplete)) = 1
         /\ Cardinality(Positions(signals, IsPhaseTransition)) = Len(signals) - 2)

\* C20 amended: the clean heuristic run visits INIT, NAVIGATE, ASSESS,
\* EXTRACT, VALIDATE, PERSIST, COMPLETE and emits exactly eight signals: the
\* six phase transitions, in the order of the phases, with EXTRACTION_COMPLETE
\* before the transition to PERSIST and RUN_COMPLETE before the transition to
\* COMPLETE; their sequence numbers are 1 to 8.
C20_CleanRunEightSignals ==
    CleanHeuristicRun =>
        (/\ phase_history = CleanRunPhases
         /\ SignalTypes(signals)
               = <<"PHASE_TRANSITION", "PHASE_TRANSITION", "PHASE_TRANSITION",
                   "PHASE_TRANSITION", "EXTRACTION_COMPLETE", "PHASE_TRANSITION",
                   "RUN_COMPLETE", "PHASE_TRANSITION">>
         /\ \A i \in DOMAIN signals : signals[i].sequence = i
         /\ LET pt == SelectSeq(signals, IsPhaseTransition)
            IN  \A i \in DOMAIN pt :
                   (/\ pt[i].payload.from_phase = CleanRunPhases[i]
                    /\ pt[i].payload.to_phase = CleanRunPhases[i + 1]))

\* A clean heuristic run has returned with a record persisted.
C20_Witness ==
    /\ CleanHeuristicRun
    /\ Len(processed_records) >= 1
    /\ Len(signals) = 8

\* The ASSESS handler, called in this step, captured a page that matches a
\* hard-block indicator.
HardBlockCaptured ==
    /\ HandlerStep("ASSESS")
    /\ current_dom' # NoDom
    /\ "hard" \in current_dom'.html

\* C21: a captured page that matches a hard-block indicator, whatever else
\* it matches, makes ASSESS emit OBSTRUCTION_DETECTED with type HARD_BLOCK
\* and then RUN_FAILED with the hard-block reason; the phase goes from ASSESS
\* to FAIL, the only browser call made is capture_dom, and the AI is not
\* invoked.
C21_HardBlockPreempts ==
    [][HardBlockCaptured =>
        (/\ Len(signals') = Len(signals) + 2
         /\ signals'[Len(signals) + 1].signal_type = "OBSTRUCTION_DETECTED"
         /\ signals'[Len(signals) + 1].payload.obstruction_type = "HARD_BLOCK"
         /\ signals'[Len(signals) + 2].signal_type = "RUN_FAILED"
         /\ signals'[Len(signals) + 2].payload.failure_reason = "Hard block detected"
         /\ phase_history' = Append(phase_history, "FAIL")
         /\ phase' = "FAIL"
         /\ Len(browser_log') = Len(browser_log) + 1
         /\ browser_log'[Len(browser_log')].op = "capture_dom"
         /\ ai_calls' = ai_calls
         /\ ai_log' = ai_log
         /\ pc' = "cleanup")]_vars

\* A run failed in ASSESS on a page that matches hard-block, consent-gate
\* and content-reveal patterns at once.
C21_Witness ==
    /\ phase = "FAIL"
    /\ phase_history[Len(phase_history) - 1] = "ASSESS"
    /\ current_dom # NoDom
    /\ current_dom.html = {"hard", "consent", "reveal"}
    /\ signals[Len(signals)].signal_type = "RUN_FAILED"
    /\ signals[Len(signals)].payload.failure_reason = "Hard block detected"

IsRunFailed(sig) == sig.signal_type = "RUN_FAILED"

\* C22: RUN_FAILED is emitted at most once per run.  The step that takes the
\* phase to FAIL emits it as its last signal, with the phase left and the
\* attempts made; a _fail call in a terminal phase, whatever its reason,
\* returns the state it was given.
C22_FailOnce ==
    /\ [](/\ Cardinality(Positions(signals, IsRunFailed)) <= 1
          /\ (phase = "FAIL") = (Positions(signals, IsRunFailed) # {})
          /\ (phase \in TERMINAL_PHASES =>
                 \A reason \in {"Global timeout exceeded", "Unhandled exception"} :
                    _fail(HandlerState, reason) = HandlerState))
    /\ [][(phase # "FAIL" /\ phase' = "FAIL") =>
            (/\ IsRunFailed(signals'[Len(signals')])
             /\ signals'[Len(signals')].payload.phase_at_failure = phase
             /\ signals'[Len(signals')].payload.attempts_made = attempts'
             /\ phase_history' = Append(phase_history, "FAIL"))]_vars

\* The run has failed and run() has gone through its cleanup: one RUN_FAILED,
\* the last signal, in a terminal phase where a further _fail is a no-op.
C22_Witness ==
    /\ pc = "done"
    /\ phase = "FAIL"
    /\ Cardinality(Positions(signals, IsRunFailed)) = 1
    /\ IsRunFailed(signals[Len(signals)])
    /\ signals[Len(signals)].payload.phase_at_failure = "VALIDATE"

IsTimeoutFailure(sig) ==
    /\ sig.signal_type = "RUN_FAILED"
    /\ sig.payload.failure_reason = "Global timeout exceeded"

\* C23: a loop iteration that starts in a non-terminal phase with the
\* elapsed time above the global timeout runs no handler: it emits RUN_FAILED
\* with reason "Global timeout exceeded" naming the phase it was in, sets the
\* phase to FAIL and leaves the loop, with no browser call, no AI call and no
\* change to the records or the files of the run directory.  From then on
\* the run neither persists nor completes.
C23_TimeoutPreempts ==
    /\ [][(pc = "loop" /\ phase \notin TERMINAL_PHASES /\ elapsed > GlobalTimeout) =>
            (/\ signals' = Append(signals, Signal(sequence + 1, "RUN_FAILED",
                                [failure_reason |-> "Global timeout exceeded",
                                 phase_at_failure |-> phase,
                                 attempts_made |-> attempts]))
             /\ phase' = "FAIL"
             /\ phase_history' = Append(phase_history, "FAIL")
             /\ pc' = "cleanup"
             /\ UNCHANGED <<browser_log, dispatched, ai_calls, ai_log, attempts, pvars>>)]_vars
    /\ [][Positions(signals, IsTimeoutFailure) # {} =>
            (/\ phase' = "FAIL"
             /\ UNCHANGED <<signals, pvars>>)]_vars
    /\ [](Positions(signals, IsTimeoutFailure) # {} =>
            (/\ Positions(signals, IsRunComplete) = {}
             /\ "COMPLETE" \notin Range(phase_history)))

\* The timeout expired while the run was in PERSIST: the run failed there,
\* returned, and nothing was persisted.
C23_Witness ==
    /\ pc = "done"
    /\ IsTimeoutFailure(signals[Len(signals)])
    /\ signals[Len(signals)].payload.phase_at_failure = "PERSIST"
    /\ processed_records # <<>>
    /\ records_file = Absent
    /\ result.status = "failed"

IsStop(call) == call.op = "stop"

\* C24: however run() is left (after COMPLETE, after FAIL, after an
\* exception a handler raised, or by cancellation), its finally clause has
\* called Browser.stop exactly once, as the last browser call; and the
\* cleanup step, whether stop raises or not, changes neither the phase nor
\* the signals, and run() returns the dict of the state before cleanup, or
\* lets the CancelledError through if it was cancelled.
C24_CleanupAlwaysStops ==
    /\ [](pc = "done" =>
            (/\ browser_log # <<>>
             /\ Positions(browser_log, IsStop) = {Len(browser_log)}))
    /\ [][(pc \in {"cleanup", "cancelled"}) =>
            (/\ browser_log' = Append(browser_log, BrowserCall("stop", NoSelector, EmptyUrl))
             /\ phase' = phase
             /\ phase_history' = phase_history
             /\ signals' = signals
             /\ result' = IF pc = "cleanup"
                          THEN run_result(HandlerState)
                          ELSE RunRaised("CancelledError")
             /\ pc' = "done")]_vars

\* run() was cancelled in its first navigation and has been left: the
\* browser was started, asked to navigate, and stopped.
C24_Witness ==
    /\ pc = "done"
    /\ result = RunRaised("CancelledError")
    /\ phase = "NAVIGATE"
    /\ Len(browser_log) = 3
    /\ browser_log[2].op = "navigate"
    /\ browser_log[3].op = "stop"

\* C25: when the task is cancelled at a suspension point, the call in
\* flight unwinds, the cleanup runs, and the signals of the run hold no
\* RUN_COMPLETE.
C25_CancelledNeverCompletes ==
    (pc = "done" /\ result = RunRaised("CancelledError")) =>
        (/\ browser_log[Len(browser_log)].op = "stop"
         /\ Positions(signals, IsRunComplete) = {})

IsNavigationRetry(sig) ==
    sig.signal_type = "RETRY_ATTEMPT" /\ sig.payload.reason = "Navigation failed"
IsObstructRetry(sig) ==
    /\ sig.signal_type = "RETRY_ATTEMPT"
    /\ sig.payload.reason = "Obstruction unresolvable without AI"

\* The positions of the phase history where phase p was followed by phase q.
Moves(p, q) ==
    {i \in 1..(Len(phase_history) - 1) :
        phase_history[i] = p /\ phase_history[i + 1] = q}

\* C26: in a whole run each kind of retry happens at most max_retries times:
\* the retried NAVIGATE failures, the OBSTRUCT to NAVIGATE retries without
\* AI, the re-entries after an empty plan in AI_REASON, and the moves from
\* VALIDATE to REPAIR.
C26_RetriesBounded ==
    /\ Cardinality(Positions(signals, IsNavigationRetry)) <= MaxRetries
    /\ Cardinality(Positions(signals, IsObstructRetry)) <= MaxRetries
    /\ Cardinality(Moves("AI_REASON", "NAVIGATE")) <= MaxRetries
    /\ Cardinality(Moves("VALIDATE", "REPAIR")) <= MaxRetries

\* The NAVIGATE handler, called in this step, got a failure from
\* Browser.navigate: it did not go on to ASSESS.
NavigationFailed ==
    /\ HandlerStep("NAVIGATE")
    /\ phase' # "ASSESS"

\* C27: a failed navigation with attempts < max_retries increments attempts,
\* emits one RETRY_ATTEMPT with the new attempt number and nothing else, and
\* leaves the run in NAVIGATE; with attempts = max_retries it fails the run.
\* So the browser is never asked to navigate more than max_retries + 1 times
\* in a row.
C27_NavigateRetry ==
    /\ [][NavigationFailed =>
            (/\ browser_log'
                   = Append(browser_log, BrowserCall("navigate", NoSelector, TargetUrl))
             /\ IF attempts < MaxRetries
                THEN /\ attempts' = attempts + 1
                     /\ signals' = Append(signals,
                            Signal(sequence + 1, "RETRY_ATTEMPT",
                                   [attempt_number |-> attempts + 1,
                                    max_attempts |-> MaxRetries,
                                    reason |-> "Navigation failed"]))
                     /\ phase' = "NAVIGATE"
                     /\ phase_history' = phase_history
                     /\ pc' = "loop"
                ELSE /\ attempts' = attempts
                     /\ attempts = MaxRetries
                     /\ phase' = "FAIL"
                     /\ IsRunFailed(signals'[Len(signals')])
                     /\ signals'[Len(signals')].payload.phase_at_failure = "NAVIGATE")]_vars
    /\ [](\A i \in DOMAIN browser_log :
            (i + MaxRetries + 1 \in DOMAIN browser_log) =>
                (\E j \in i..(i + MaxRetries + 1) : browser_log[j].op # "navigate"))

\* The run failed in NAVIGATE after max_retries + 1 navigations in a row,
\* each but the last followed by a RETRY_ATTEMPT.
C27_Witness ==
    /\ phase = "FAIL"
    /\ Len(browser_log) >= MaxRetries + 2
    /\ \A j \in 2..(MaxRetries + 2) : browser_log[j].op = "navigate"
    /\ Cardinality(Positions(signals, IsNavigationRetry)) = MaxRetries
    /\ signals[Len(signals)].payload.phase_at_failure = "NAVIGATE"

\* The signals emitted in this step.
NewSignals == SubSeq(signals', Len(signals) + 1, Len(signals'))

\* C28: VALIDATE with no processed records emits RETRY_ATTEMPT and goes to
\* REPAIR if retries remain and the AI Engine is available; otherwise it
\* goes to FAIL, and emits no RETRY_ATTEMPT.
C28_EmptyValidate ==
    [][(HandlerStep("VALIDATE") /\ processed_records = <<>>) =>
        IF attempts < MaxRetries /\ ai_available
        THEN /\ Positions(NewSignals, IsRetry) # {}
             /\ phase' = "REPAIR"
        ELSE /\ Positions(NewSignals, IsRetry) = {}
             /\ phase' = "FAIL"]_vars

\* The fields of the processed records, as pairs of record index and field
\* name, and those of them whose confidence is below the threshold.
AllFields ==
    {f \in (DOMAIN processed_records) \X Selectors :
        f[2] \in DOMAIN processed_records[f[1]].fields}
LowFields ==
    {f \in AllFields : processed_records[f[1]].fields[f[2]] < MIN_CONFIDENCE_THRESHOLD}

\* C29: VALIDATE goes to PERSIST only with at least one processed record.
\* With records, it adds 1 to attempts and goes to REPAIR exactly when more
\* than half of all fields are below the confidence threshold, the AI Engine
\* is available and attempts < max_retries; otherwise it emits one
\* EXTRACTION_COMPLETE with the record count and the number of flagged
\* fields, then the PHASE_TRANSITION to PERSIST, and consumes no retry.
C29_ValidateBranches ==
    /\ [][(HandlerStep("VALIDATE") /\ phase' = "PERSIST") => processed_records # <<>>]_vars
    /\ [][(HandlerStep("VALIDATE") /\ processed_records # <<>>) =>
            IF /\ 2 * Cardinality(LowFields) > Cardinality(AllFields)
               /\ ai_available
               /\ attempts < MaxRetries
            THEN /\ attempts' = attempts + 1
                 /\ phase' = "REPAIR"
                 /\ Positions(NewSignals, IsExtractionComplete) = {}
            ELSE /\ attempts' = attempts
                 /\ phase' = "PERSIST"
                 /\ Len(NewSignals) = 2
                 /\ IsExtractionComplete(NewSignals[1])
                 /\ NewSignals[1].payload.record_count = Len(processed_records)
                 /\ NewSignals[1].payload.flagged_fields = Cardinality(LowFields)
                 /\ IsPhaseTransition(NewSignals[2])
                 /\ NewSignals[2].payload.to_phase = "PERSIST"]_vars

\* VALIDATE has passed on to PERSIST a record of which one field in two is
\* below the threshold, with the AI Engine available and retries left.
C29_Witness ==
    /\ phase = "PERSIST"
    /\ ai_available
    /\ attempts < MaxRetries
    /\ Cardinality(LowFields) = 1
    /\ Cardinality(AllFields) = 2
    /\ IsExtractionComplete(signals[Len(signals) - 1])

\* C30: every step that adds 1 to the attempts counter emits a
\* RETRY_ATTEMPT whose attempt_number is the new value of the counter.
C30_RetrySignalled ==
    [][attempts' = attempts + 1 =>
        (\E i \in DOMAIN NewSignals :
            /\ IsRetry(NewSignals[i])
            /\ NewSignals[i].payload.attempt_number = attempts')]_vars

\* C31: the EXECUTE_PLAN handler emits one ACTION_EXECUTED per action it
\* attempts, for the pending actions in their order; every attempted action
\* but the last succeeded, and it stops short of the end of the plan only
\* after an action that did not succeed, which it records in the prior
\* attempts.  No action after that one reaches the browser.  Whatever
\* happened, the pending plan is then empty, attempts is 0, and the handler
\* ends with the PHASE_TRANSITION from EXECUTE_PLAN to ASSESS.
C31_ExecutePlan ==
    [][HandlerStep("EXECUTE_PLAN") =>
        LET n0 == Len(signals)
            m == Len(signals') - n0 - 1
            stopped == m > 0 /\ signals'[n0 + m].payload.result # "success"
        IN  /\ m \in 0..Len(pending_plan)
            /\ \A i \in 1..m :
                  (/\ IsExecutionOf(signals'[n0 + i], pending_plan[i])
                   /\ (i < m => signals'[n0 + i].payload.result = "success"))
            /\ (~stopped => (m = Len(pending_plan) /\ prior_ai_attempts' = prior_ai_attempts))
            /\ (stopped => prior_ai_attempts' = Append(prior_ai_attempts, "Action failed"))
            /\ Len(dispatched') <= Len(dispatched) + m
            /\ \A i \in (Len(dispatched) + 1)..Len(dispatched') :
                  dispatched'[i] = pending_plan[i - Len(dispatched)]
            /\ IsPhaseTransition(signals'[Len(signals')])
            /\ signals'[Len(signals')].payload.from_phase = "EXECUTE_PLAN"
            /\ signals'[Len(signals')].payload.to_phase = "ASSESS"
            /\ pending_plan' = <<>>
            /\ attempts' = 0
            /\ phase' = "ASSESS"]_vars

\* EXECUTE_PLAN ran after navigation retries had been consumed; the first
\* action of a two-action plan succeeded, the second did not, and the
\* handler recorded the failure and went on to ASSESS with attempts 0.
C31_Witness ==
    /\ phase = "ASSESS"
    /\ phase_history[Len(phase_history) - 1] = "EXECUTE_PLAN"
    /\ Positions(signals, IsNavigationRetry) # {}
    /\ attempts = 0
    /\ pending_plan = <<>>
    /\ Len(ai_log[Len(ai_log)].plan) = 2
    /\ signals[Len(signals) - 2].signal_type = "ACTION_EXECUTED"
    /\ signals[Len(signals) - 2].payload.result = "success"
    /\ signals[Len(signals) - 1].signal_type = "ACTION_EXECUTED"
    /\ signals[Len(signals) - 1].payload.result # "success"
    /\ prior_ai_attempts = <<"Action failed">>

IsActionExecuted(sig) == sig.signal_type = "ACTION_EXECUTED"

\* C32: in OBSTRUCT, when the obstruction found on the page has a selector
\* and does not require AI, the handler clicks that selector once and emits
\* one ACTION_EXECUTED for it (else it clicks nothing).  After a successful
\* click it sets attempts to 0 and goes to NAVIGATE with no AI call.
\* Otherwise it goes to AI_REASON if the AI Engine is available; else, with
\* attempts < max_retries, it consumes a retry and goes to NAVIGATE; else
\* it FAILs.
C32_ObstructBranches ==
    [][(HandlerStep("OBSTRUCT") /\ current_dom # NoDom) =>
        LET obstruction == detect_obstruction(current_dom.html)
            heuristic == ~obstruction.requires_ai /\ obstruction.selector # NoSelector
            clicked == heuristic /\ NewSignals[1].payload.result = "success"
        IN  /\ IF heuristic
               THEN /\ browser_log' = Append(browser_log,
                           BrowserCall("click", obstruction.selector, EmptyUrl))
                    /\ Positions(NewSignals, IsActionExecuted) = {1}
                    /\ NewSignals[1].payload.action_type = "click"
                    /\ NewSignals[1].payload.selector = obstruction.selector
               ELSE /\ browser_log' = browser_log
                    /\ Positions(NewSignals, IsActionExecuted) = {}
            /\ ai_calls' = ai_calls
            /\ IF clicked
               THEN attempts' = 0 /\ phase' = "NAVIGATE" /\ Len(NewSignals) = 2
               ELSE IF ai_available
               THEN attempts' = attempts /\ phase' = "AI_REASON"
               ELSE IF attempts < MaxRetries
               THEN /\ attempts' = attempts + 1
                    /\ phase' = "NAVIGATE"
                    /\ Cardinality(Positions(NewSignals, IsObstructRetry)) = 1
               ELSE attempts' = attempts /\ phase' = "FAIL"]_vars

\* After navigation retries, the click on the consent banner succeeded: the
\* run is back in NAVIGATE with attempts 0, the AI Engine, though available,
\* never called.
C32_Witness ==
    /\ phase = "NAVIGATE"
    /\ phase_history[Len(phase_history) - 1] = "OBSTRUCT"
    /\ Positions(signals, IsNavigationRetry) # {}
    /\ attempts = 0
    /\ ai_available
    /\ ai_calls = 0
    /\ signals[Len(signals) - 1].signal_type = "ACTION_EXECUTED"
    /\ signals[Len(signals) - 1].payload.selector = "#onetrust-accept-btn-handler"
    /\ signals[Len(signals) - 1].payload.result = "success"

\* C33: in heuristic mode with no selectors the EXTRACT handler produces no
\* record and goes on to VALIDATE, which then takes its zero-record path;
\* the run is never in PERSIST with zero records.
C33_EmptySelectors ==
    /\ [][(/\ HandlerStep("EXTRACT")
           /\ config.extraction_mode = "heuristic"
           /\ config.heuristic_selectors = {}) =>
            (processed_records' = <<>> /\ phase' = "VALIDATE")]_vars
    /\ [](phase = "PERSIST" => processed_records # <<>>)

IsAiInvoked(sig) == sig.signal_type = "AI_INVOKED"

\* What the heuristic pass can produce for the configured selectors.
HeuristicOutcomes ==
    {heuristic_extract(config.heuristic_selectors, found) : found \in SUBSET Selectors}

\* C34: in hybrid mode the EXTRACT handler runs the heuristic pass first
\* and the AI pass after it exactly when the heuristic pass left a partial
\* record and the AI Engine is available.  The AI pass only appends: the
\* records of the heuristic pass are at the head of the processed list, as
\* the heuristic pass made them, and everything behind them is an AI record.
C34_HybridAdditive ==
    [][(HandlerStep("EXTRACT") /\ config.extraction_mode = "hybrid") =>
        \E h \in HeuristicOutcomes :
            /\ IsPrefix(h, processed_records')
            /\ \A i \in (Len(h) + 1)..Len(processed_records') :
                  processed_records'[i].extraction_mode = "ai"
            /\ (Positions(NewSignals, IsAiInvoked) # {})
                  = ((\E i \in DOMAIN h : h[i].is_partial) /\ ai_available)
            /\ Cardinality(Positions(NewSignals, IsAiInvoked)) <= 1]_vars

\* A hybrid run whose heuristic pass left a partial record and whose AI pass
\* appended a record behind it.
C34_Witness ==
    /\ config.extraction_mode = "hybrid"
    /\ Len(processed_records) = 2
    /\ processed_records[1].extraction_mode = "heuristic"
    /\ processed_records[1].is_partial
    /\ processed_records[2].extraction_mode = "ai"
    /\ phase = "VALIDATE"

\* C35: the prior attempts the Conduit has accumulated can be read by
\* generate_navigation_plan: when the AI_REASON handler is about to run,
\* the call it makes with that list returns the model's plan (the first 20
\* actions of the response), whatever the model answers.
C35_PriorAttemptsReadable ==
    HandlerStep("AI_REASON") =>
        \A response \in AIResponses :
            generate_navigation_plan(response, prior_ai_attempts)
                = FirstN(response, MAX_FUNCTION_CALLS_PER_INVOCATION)

IsAiSignal(sig) == sig.signal_type \in {"AI_INVOKED", "AI_RESPONDED", "AI_REJECTED"}

\* C36: in heuristic mode the AI Engine is never initialized and never
\* called: it is never available, the run never enters AI_REASON,
\* EXECUTE_PLAN or REPAIR, emits no AI_INVOKED, AI_RESPONDED or AI_REJECTED,
\* and ai_calls stays 0, in the returned result too.
C36_HeuristicNoAI ==
    config.extraction_mode = "heuristic" =>
        (/\ ~ai_available
         /\ ai_calls = 0
         /\ Range(phase_history) \cap {"AI_REASON", "EXECUTE_PLAN", "REPAIR"} = {}
         /\ Positions(signals, IsAiSignal) = {}
         /\ ai_log = <<>>
         /\ (pc = "done" => result.ai_calls = 0))

\* A heuristic run met a content-reveal obstruction, which needs the AI:
\* it spent its retries on NAVIGATE and failed in OBSTRUCT.
C36_Witness ==
    /\ config.extraction_mode = "heuristic"
    /\ pc = "done"
    /\ current_dom # NoDom
    /\ detect_obstruction(current_dom.html).requires_ai
    /\ Positions(signals, IsObstructRetry) # {}
    /\ result.phase = "FAIL"
    /\ signals[Len(signals)].payload.phase_at_failure = "OBSTRUCT"

IsAiResponded(sig) == sig.signal_type = "AI_RESPONDED"

\* C37: between handler calls the AI_INVOKED signals, the AI_RESPONDED
\* signals and the ai_calls counter number the same; every AI_INVOKED is
\* followed at once by the AI_RESPONDED of the same kind of request, so
\* before any other AI_INVOKED and before any PHASE_TRANSITION.
C37_InvokedResponded ==
    /\ Cardinality(Positions(signals, IsAiInvoked)) = ai_calls
    /\ Cardinality(Positions(signals, IsAiResponded)) = ai_calls
    /\ \A i \in Positions(signals, IsAiInvoked) :
          (/\ i + 1 \in Positions(signals, IsAiResponded)
           /\ signals[i + 1].payload.response_type = signals[i].payload.request_type)

\* C38: in every state of a run the attempts counter lies between 0 and
\* max_retries, and every RETRY_ATTEMPT signal carries max_retries as its
\* max_attempts and an attempt_number between 1 and that.
C38_AttemptsBounded ==
    /\ attempts \in 0..MaxRetries
    /\ \A i \in Positions(signals, IsRetry) :
          (/\ signals[i].payload.max_attempts = MaxRetries
           /\ signals[i].payload.attempt_number \in 1..signals[i].payload.max_attempts)

\* The run goes on with the counter at the ceiling after a RETRY_ATTEMPT
\* numbered max_retries, an earlier one being numbered 1.
C38_Witness ==
    /\ pc = "loop"
    /\ attempts = MaxRetries
    /\ \E i, j \in Positions(signals, IsRetry) :
          (/\ i < j
           /\ signals[i].payload.attempt_number = 1
           /\ signals[j].payload.attempt_number = MaxRetries)

\* C39: the PHASE_TRANSITION signals of a run, in sequence order, form a
\* path: the first leaves INIT, each later one leaves the phase the one
\* before it entered, and every one of them is an edge of VALID_TRANSITIONS.
C39_TransitionsFormPath ==
    LET pt == SelectSeq(signals, IsPhaseTransition)
    IN  /\ (pt # <<>> => pt[1].payload.from_phase = "INIT")
        /\ \A i \in 2..Len(pt) :
              pt[i].payload.from_phase = pt[i - 1].payload.to_phase
        /\ \A i \in DOMAIN pt :
              pt[i].payload.to_phase \in VALID_TRANSITIONS(pt[i].payload.from_phase)
        /\ \A i, j \in Positions(signals, IsPhaseTransition) :
              (i < j => signals[i].sequence < signals[j].sequence)

\* A completed run whose path went back from OBSTRUCT to NAVIGATE on the way.
C39_Witness ==
    LET pt == SelectSeq(signals, IsPhaseTransition)
    IN  /\ pc = "done"
        /\ phase = "COMPLETE"
        /\ Len(pt) >= 8
        /\ \E i \in DOMAIN pt :
              (/\ pt[i].payload.from_phase = "OBSTRUCT"
               /\ pt[i].payload.to_phase = "NAVIGATE")

IsNewline(token) == token = NL

\* C40: a run in COMPLETE has emitted EXTRACTION_COMPLETE once and then
\* RUN_COMPLETE once; the total_records of RUN_COMPLETE, the number of
\* lines of records.jsonl and, once run() has returned, the records_count of
\* its result are one number, and that number is at least 1.
C40_CompleteCounts ==
    phase = "COMPLETE" =>
        (/\ Cardinality(Positions(signals, IsExtractionComplete)) = 1
         /\ Cardinality(Positions(signals, IsRunComplete)) = 1
         /\ \A i \in Positions(signals, IsExtractionComplete) :
               \A j \in Positions(signals, IsRunComplete) :
                  (/\ i < j
                   /\ signals[j].payload.total_records >= 1
                   /\ records_file.exists
                   /\ Cardinality(Positions(records_file.content, IsNewline))
                          = signals[j].payload.total_records
                   /\ (pc = "done" =>
                          result.records_count = signals[j].payload.total_records)))

\* run() returned in COMPLETE with two records, having gone through REPAIR
\* and so through VALIDATE twice.
C40_Witness ==
    /\ pc = "done"
    /\ phase = "COMPLETE"
    /\ result.records_count = 2
    /\ "REPAIR" \in Range(phase_history)


(***************************************************************************)
(* PersistSpec: PipelineManager.persist() statement by statement, any of   *)
(* its file operations failing, called any number of times on a run        *)
(* directory that records are being added to.                              *)
(***************************************************************************)
\* The most records the manager is given.
MaxRecords == 2
\* persist() is not called again once its log holds this many entries.
MaxPersistLog == 3

DefaultConfig ==
    [extraction_mode |-> "heuristic", heuristic_selectors |-> {}, allow_cross_origin |-> FALSE]

\* The records add_processed_record is called with: one of heuristic_extract,
\* one converted from a model answer, one without fields.
RecordsToAdd ==
    { heuristic_extract(Selectors, {"title"})[1],
      convert_record(RawMixed, AI_EXTRACT_DEFAULT_CONFIDENCE),
      convert_record(RawEmpty, AI_EXTRACT_DEFAULT_CONFIDENCE) }

\* The statements of persist() that operate on a file.
FileOperations == {"open", "write", "rename", "metadata", "cleanup_raw"}

ManagerState ==
    [processed_records |-> processed_records, records_file |-> records_file,
     tmp_file |-> tmp_file, metadata_file |-> metadata_file,
     ppc |-> ppc, pidx |-> pidx, persist_log |-> persist_log]

CommitManager(m) ==
    /\ processed_records' = m.processed_records
    /\ records_file' = m.records_file
    /\ tmp_file' = m.tmp_file
    /\ metadata_file' = m.metadata_file
    /\ ppc' = m.ppc
    /\ pidx' = m.pidx
    /\ persist_log' = m.persist_log

PersistInit ==
    /\ config = DefaultConfig
    /\ ConduitInit
    /\ EmitterInit({})
    /\ PipelineInit

AddRecord ==
    /\ ppc = "idle"
    /\ Len(processed_records) < MaxRecords
    /\ \E record \in RecordsToAdd :
          processed_records' = add_processed_record(processed_records, record)
    /\ UNCHANGED <<records_file, tmp_file, metadata_file, ppc, pidx, persist_log>>
    /\ UNCHANGED <<cvars, evars, bvars, gvars>>

PersistCall ==
    /\ ppc = "idle"
    /\ Len(persist_log) < MaxPersistLog
    /\ ppc' = "call"
    /\ previous_file' = records_file
    /\ fault_injected' = FALSE
    /\ UNCHANGED <<processed_records, records_file, tmp_file, metadata_file, pidx,
                   persist_log>>
    /\ UNCHANGED <<cvars, evars, bvars>>

PersistStep ==
    /\ ppc \notin {"idle", "returned", "raised"}
    /\ \E fails \in BOOLEAN :
          /\ \E m \in {persist_step(ManagerState, fails)} : CommitManager(m)
          /\ fault_injected' = (fault_injected \/ (fails /\ ppc \in FileOperations))
    /\ UNCHANGED previous_file
    /\ UNCHANGED <<cvars, evars, bvars>>

\* persist() has returned or raised: the caller goes on.
PersistDone ==
    /\ ppc \in {"returned", "raised"}
    /\ ppc' = "idle"
    /\ pidx' = 0
    /\ UNCHANGED <<processed_records, records_file, tmp_file, metadata_file, persist_log>>
    /\ UNCHANGED <<cvars, evars, bvars, gvars>>

PersistNext ==
    \/ AddRecord
    \/ PersistCall
    \/ PersistStep
    \/ PersistDone

PersistSpec == PersistInit /\ [][PersistNext]_vars

\* records.jsonl holding one line for every processed record.
RECURSIVE batch_lines(_, _)
batch_lines(records, i) ==
    IF i > Len(records) THEN <<>>
    ELSE <<record_dump_json(records[i]), NL>> \o batch_lines(records, i + 1)

FullBatch == File(batch_lines(processed_records, 1))

\* C6: from the call of persist() on, whatever fails, records.jsonl is what
\* it was before the call (absent, or the previous batch) or holds one line
\* for every processed record, never a part of the batch; after a failure
\* persist() raises, and records.tmp is gone when it does.
C6_AtomicPersist ==
    /\ ppc # "idle" => records_file \in {previous_file, FullBatch}
    /\ \A i \in DOMAIN records_file.content : records_file.content[i] # PartialLine
    /\ ppc = "raised" => fault_injected /\ ~tmp_file.exists
    /\ ppc = "returned" => ~fault_injected
    /\ (fault_injected /\ ppc # "idle") => ppc \in {"except", "raised"}

\* A second persist() call that failed while writing: it raised, and
\* records.jsonl still holds the first batch, not the second.
C6_Witness ==
    /\ ppc = "raised"
    /\ previous_file.exists
    /\ records_file = previous_file
    /\ records_file # FullBatch
    /\ ~tmp_file.exists


(***************************************************************************)
(* EmitterSpec: one SignalEmitter whose emit is called by several asyncio  *)
(* tasks.  A task runs until it awaits something that suspends it: taking  *)
(* the free lock, the body under the lock, the ledger append and the       *)
(* synchronous subscribers do not suspend, so a step of a task goes from   *)
(* one suspension inside an asynchronous subscriber to the next, or to the *)
(* return of emit.                                                         *)
(***************************************************************************)
\* emit is not called any more once this many signals were emitted.
MaxSignals == 2
\* The most callbacks subscribed.
MaxSubscribers == 2

Tasks == {"t1", "t2"}

\* The callbacks subscribed: plain functions and coroutine functions, which
\* return or raise an Exception.
Callbacks == [kind : {"sync", "async"}, raises : BOOLEAN]

\* What the tasks emit.
Emissions ==
    { [signal_type |-> "ACTION_EXECUTED",
       payload |-> [action_type |-> "click", result |-> "success"]] }

\* An event of a subscriber: it "received" the signal (the callback was
\* called), it "handled" it (the callback or its coroutine returned) or it
\* "raised".  subscriber: its index in _subscribers.
Event(event, subscriber, seq) ==
    [event |-> event, subscriber |-> subscriber, sequence |-> seq]

\* The except clause of _broadcast that lets the exception through.
broadcast_except_reraise(raised) == raised

\* The except clause of _broadcast (except Exception: pass): whether the
\* exception a subscriber raised leaves the try statement.
broadcast_except(raised) == FALSE

\* emit returns the signal to the task that called it, or raises.
emit_return(e, t) ==
    [e EXCEPT !.tpc[t] = "idle", !.returned[t] = Append(@, e.tsig[t])]

emit_raise(e, t) ==
    [e EXCEPT !.tpc[t] = "idle", !.emit_raised[t] = @ + 1]

\* Subscriber i returns from, or raises in, its handling of task t's signal.
finish_subscriber(e, t, i) ==
    [e EXCEPT !.deliveries =
        Append(@, Event(IF e.subscribers[i].callback.raises THEN "raised" ELSE "handled",
                        i, e.tsig[t].sequence))]

\* The for loop of _broadcast in task t from subscriber i on, until the
\* loop ends or the coroutine of subscriber number `stop` suspends.
RECURSIVE _broadcast(_, _, _, _)
_broadcast(e0, t, i, stop) ==
    Bind(e0, LAMBDA e :
        IF i > Len(e.subscribers)
        THEN emit_return(e, t)
        ELSE LET callback == e.subscribers[i].callback
                 e1 == [e EXCEPT !.deliveries =
                                     Append(@, Event("received", i, e.tsig[t].sequence))]
             IN  IF callback.kind = "async" /\ i = stop
                 THEN [e1 EXCEPT !.tpc[t] = "suspended", !.tidx[t] = i]
                 ELSE IF broadcast_except(callback.raises)
                 THEN emit_raise(finish_subscriber(e1, t, i), t)
                 ELSE _broadcast(finish_subscriber(e1, t, i), t, i + 1, stop))

\* Task t is resumed inside the subscriber it awaits, and goes on.
resume_broadcast(e, t, stop) ==
    LET i == e.tidx[t]
        e1 == finish_subscriber(e, t, i)
    IN  IF broadcast_except(e.subscribers[i].callback.raises)
        THEN emit_raise(e1, t)
        ELSE _broadcast(e1, t, i + 1, stop)

\* SignalEmitter.emit called by task t, up to its first suspension.
emit_call(e, t, signal_type, payload, stop) ==
    Bind(emit(e, signal_type, payload), LAMBDA e1 :
        _broadcast([e1 EXCEPT !.tsig[t] = e1.signals[Len(e1.signals)]], t, 1, stop))

EmitterState ==
    [sequence |-> sequence, signals |-> signals, ledger |-> ledger,
     subscribers |-> subscribers, tpc |-> tpc, tsig |-> tsig, tidx |-> tidx,
     returned |-> returned, emit_raised |-> emit_raised, deliveries |-> deliveries]

CommitEmitter(e) ==
    /\ sequence' = e.sequence
    /\ signals' = e.signals
    /\ ledger' = e.ledger
    /\ subscribers' = e.subscribers
    /\ tpc' = e.tpc
    /\ tsig' = e.tsig
    /\ tidx' = e.tidx
    /\ returned' = e.returned
    /\ emit_raised' = e.emit_raised
    /\ deliveries' = e.deliveries
    /\ UNCHANGED <<setattr_log, cvars, pvars, gvars>>

EmitterSpecInit ==
    /\ config = DefaultConfig
    /\ ConduitInit
    /\ EmitterInit(Tasks)
    /\ PipelineInit

Subscribe ==
    /\ Len(subscribers) < MaxSubscribers
    /\ \E callback \in Callbacks :
          subscribers' = subscribe(subscribers, callback, sequence)
    /\ UNCHANGED <<evars, tpc, tsig, tidx, returned, emit_raised, deliveries, setattr_log>>
    /\ UNCHANGED <<cvars, pvars, gvars>>

Emit ==
    \E t \in Tasks :
        /\ tpc[t] = "idle"
        /\ sequence < MaxSignals
        /\ \E emission \in Emissions, stop \in 0..Len(subscribers) :
              \E e \in {emit_call(EmitterState, t, emission.signal_type,
                                  emission.payload, stop)} :
                  CommitEmitter(e)

Resume ==
    \E t \in Tasks :
        /\ tpc[t] = "suspended"
        /\ \E stop \in 0..Len(subscribers) :
              \E e \in {resume_broadcast(EmitterState, t, stop)} : CommitEmitter(e)

EmitterNext ==
    \/ Subscribe
    \/ Emit
    \/ Resume

EmitterSpec == EmitterSpecInit /\ [][EmitterNext]_vars


(***************************************************************************)
(* Properties of the SignalEmitter.                                        *)
(***************************************************************************)
Delivered(event, i, seq) ==
    \E d \in DOMAIN deliveries : deliveries[d] = Event(event, i, seq)

\* C4: after any number of emit calls, from one task or interleaved from
\* several, the signals in memory carry the sequence numbers 1, 2, ..., N
\* in list order.
C4_SequenceUnbroken ==
    /\ sequence = Len(signals)
    /\ \A i \in DOMAIN signals : signals[i].sequence = i

\* Two emit calls interleaved: a task is suspended in the broadcast of its
\* signal while the other task's later signal is in the list already.
C4_Witness ==
    \E t \in Tasks :
        /\ tpc[t] = "suspended"
        /\ tsig[t].sequence < Len(signals)

\* C8: a subscriber that raises changes nothing for the others: every emit
\* call returns its signal and none raises, every callback subscribed
\* before the call was invoked with the signal, and the signal is in the
\* list and in the ledger.
C8_SubscriberErrorContained ==
    /\ \A t \in Tasks : emit_raised[t] = 0
    /\ Len(signals) = sequence
    /\ \A t \in Tasks : \A k \in DOMAIN returned[t] :
          LET sig == returned[t][k]
          IN  /\ sig.sequence \in DOMAIN signals
              /\ signals[sig.sequence] = sig
              /\ \E j \in DOMAIN ledger : ledger[j] = model_dump_json(sig)
              /\ \A i \in DOMAIN subscribers :
                    subscribers[i].since < sig.sequence
                        => Delivered("received", i, sig.sequence)

\* An emit call that returned although its first subscriber raised, the
\* second subscriber having handled the signal after that.
C8_Witness ==
    \E t \in Tasks : \E k \in DOMAIN returned[t] :
        /\ Len(subscribers) = 2
        /\ Delivered("raised", 1, returned[t][k].sequence)
        /\ Delivered("handled", 2, returned[t][k].sequence)

C10_InOrderDelivery ==
    \A a \in DOMAIN deliveries : \A b \in DOMAIN deliveries :
        (/\ a < b
         /\ deliveries[a].event = "received"
         /\ deliveries[b].event = "received"
         /\ deliveries[a].subscriber = deliveries[b].subscriber)
        => /\ deliveries[a].sequence < deliveries[b].sequence
           /\ \E c \in (a + 1)..(b - 1) :
                 /\ deliveries[c].event \in {"handled", "raised"}
                 /\ deliveries[c].subscriber = deliveries[a].subscriber
                 /\ deliveries[c].sequence = deliveries[a].sequence


(***************************************************************************)
(* SignalSpec: the tasks emit, and assign to fields of the signals that    *)
(* emit returned to them (signals/types.py: Signal is a frozen model).     *)
(***************************************************************************)
\* The most assignments attempted.
MaxSetattr == 2

\* The fields of a Signal and a value to assign to each.
SignalFields == {"sequence", "signal_type", "run_id", "payload"}

AssignedValue(field) ==
    CASE field = "sequence"    -> 99
      [] field = "signal_type" -> "RUN_FAILED"
      [] field = "run_id"      -> "run_2"
      [] field = "payload"     -> [modified |-> TRUE]

\* __setattr__ of a model that is not frozen.
Signal_setattr_unfrozen(sig, field, value) ==
    [signal |-> [sig EXCEPT ![field] = value], raised |-> NoError]

\* Signal.__setattr__ (model_config = {"frozen": True}): the assignment
\* raises, the signal is as it was.
Signal_setattr(sig, field, value) ==
    [signal |-> sig, raised |-> "ValidationError"]

\* Task t assigns to a field of the k-th signal emit returned to it.  The
\* object is the one in _signals; the ledger holds text written earlier.
SetAttr ==
    \E t \in Tasks :
        /\ tpc[t] = "idle"
        /\ Len(setattr_log) < MaxSetattr
        /\ \E k \in DOMAIN returned[t], field \in SignalFields :
              \E r \in {Signal_setattr(returned[t][k], field, AssignedValue(field))} :
                  /\ signals' = [i \in DOMAIN signals |->
                                    IF signals[i] = returned[t][k] THEN r.signal
                                    ELSE signals[i]]
                  /\ returned' = [u \in Tasks |->
                                    [j \in DOMAIN returned[u] |->
                                        IF returned[u][j] = returned[t][k] THEN r.signal
                                        ELSE returned[u][j]]]
                  /\ setattr_log' = Append(setattr_log,
                                           [sequence |-> returned[t][k].sequence,
                                            field |-> field, raised |-> r.raised])
        /\ UNCHANGED <<sequence, ledger, subscribers, tpc, tsig, tidx, emit_raised, deliveries>>
        /\ UNCHANGED <<cvars, pvars, gvars>>

SignalNext ==
    \/ Emit
    \/ SetAttr

SignalSpec == EmitterSpecInit /\ [][SignalNext]_vars


\* C11: an emitted signal's entry in the list and its line in the ledger
\* never change: every step leaves the list and the ledger as they were or
\* appends to them, and every assignment to a field of an emitted signal
\* raises.
C11_EmittedNeverChanges ==
    [][/\ IsPrefix(signals, signals')
       /\ IsPrefix(ledger, ledger')
       /\ \A i \in DOMAIN setattr_log' : setattr_log'[i].raised # NoError]_vars

\* Two signals emitted, and an assignment to the payload of the first
\* attempted.
C11_Witness ==
    /\ Len(signals) = 2
    /\ Len(ledger) = 4
    /\ \E i \in DOMAIN setattr_log :
          setattr_log[i].sequence = 1 /\ setattr_log[i].field = "payload"

=============================================================================
